---- MODULE Spec2Model ----
(***************************************************************************)
(* settle-core: dependency graph, state store, planner and executor.       *)
(*                                                                         *)
(* The graph functions (TopologicalSort, ValidateDependencies) are pure    *)
(* up to Go's map iteration order, which is modelled as a nondeterministic *)
(* choice of a permutation.  The plan/execute pipeline is modelled as a    *)
(* sequential state machine, one step per loop iteration of Execute.       *)
(***************************************************************************)
EXTENDS Integers, Sequences, FiniteSets, TLC

VARIABLES
    nodes,      \* Graph.nodes : ResourceID -> Resource
    edges,      \* Graph.edges : ResourceID -> sequence of Dependency
    ret,        \* return value of the last graph call (TopologicalSort / ValidateDependencies)
    state,      \* StateManager.state : ResourceID -> ResourceState
    stateFile,  \* the persisted document behind StateManager.stateFile
    plan,       \* the *Plan handed to Execute: [Actions, CreatedAt]
    planErr,    \* error returned by Planner.Plan
    result,     \* the *ExecutionResult built by Execute
    execErr,    \* error returned by Executor.Execute
    pc,         \* position of the caller in the plan/execute protocol
    idx,        \* index of the next action of the loop in Execute (1-based)
    calls,      \* history: Apply / Destroy calls made on resources, in order
    touched,    \* history: MarkApplied / MarkFailed calls made, in order
    state0,     \* history: the state store as it was when Execute was entered
    next,       \* what the Plan() call that follows the plan or the run returned
    cancelAt,   \* history: the action index at which Execute's context was cancelled, 0 if not
    cmd,        \* the RunCommand call in flight: caller, goroutine, channel, timer, context
    batch,      \* the package manager call in flight: its packages, counters and return
    probe,      \* the ping command: its loop, its goroutines, the counters they share
    shared,     \* the ids whose stored snapshot is the map their resource holds as Config
    remote,     \* Executor.hosts, and the packages installed on each of these hosts
    clock       \* logical time source behind time.Now()

vars == <<nodes, edges, ret, state, stateFile, plan, planErr, result, execErr,
          pc, idx, calls, touched, state0, next, cancelAt, cmd, batch, probe, shared,
          remote, clock>>

graphVars == <<nodes, edges>>
auxVars   == <<batch, probe, shared, remote>>
pipeVarsButCmd == <<state, stateFile, plan, planErr, result, execErr, pc, idx,
                    calls, touched, state0, next, cancelAt, auxVars, clock>>
pipeVars  == <<state, stateFile, plan, planErr, result, execErr, pc, idx,
               calls, touched, state0, next, cancelAt, cmd, auxVars, clock>>

----------------------------------------------------------------------------
(* Bounds of the model *)

\* SpecGraph: at most this many nodes and this many declared edges in a graph
MaxNodes == 2
MaxEdges == 2

\* SpecLayers: at most this many nodes and this many declared edges in a graph
LayerNodes == 2
LayerEdges == 1

\* Spec: at most this many resources, none of which declares a dependency
MaxRes == 3

\* SpecRuns: at most this many resources, none of which declares a dependency
RunRes == 2

\* SpecStore: at most this many calls on the state store
MaxOps == 4

\* SpecPlan: at most this many resources and declared edges
PlanRes == 2
PlanEdges == 1

\* SpecDeps: at most this many resources and declared edges
DepRes == 3
DepEdges == 1

\* SpecEntries: at most this many resources and this many calls on the state store
EntRes == 2
EntOps == 2

\* SpecBuild: resource ids to build a graph from, and at most this many calls on it
BuildRes == 2
BuildOps == 3

\* SpecMutate: at most this many resources and declared edges before the graph is changed
MutRes == 2
MutEdges == 2

\* SpecCommand: at most this many resources
CmdRes == 1

\* SpecBatch: at most this many packages in one call of the package manager
MaxPkgs == 3

\* SpecOrphans: at most this many resources and declared edges
OrphRes == 1
OrphEdges == 1

\* SpecHosts: at most this many resources
HostRes == 1

\* SpecPing: at most this many hosts in the hosts file
PingHosts == 3

----------------------------------------------------------------------------
(* Data model: resource types *)

IdPool == <<"r1", "r2", "r3", "r4", "r5", "r6">>

\* the first n resource ids
Ids(n) == {IdPool[i] : i \in 1..n}

LayerFoundation     == 0
LayerPlatform       == 1
LayerInfrastructure == 2
LayerApplication    == 3
LayerConfiguration  == 4
LayerRuntime        == 5

Layers == LayerFoundation..LayerRuntime

EdgeDependsOn == "depends_on"

ActionCreate == "create"
ActionUpdate == "update"
ActionDelete == "delete"
ActionNoOp   == "no_op"

StatePending == "pending"
StateApplied == "applied"
StateFailed  == "failed"
StateDrifted == "drifted"
StateSkipped == "skipped"
StateUnknown == "unknown"

\* a Go nil error; an error is the chain of its message parts, outermost first
NoErr == <<>>

\* fmt.Errorf("<prefix>: %w", err)
Wrap(prefix, err) == <<prefix>> \o err

Dependency(t, req) == [Target |-> t, EdgeType |-> EdgeDependsOn, Required |-> req]

\* all permutations of a finite set, as sequences (a map iteration order)
Perms(S) ==
    {f \in [1..Cardinality(S) -> S] : \A i, j \in 1..Cardinality(S) : f[i] = f[j] => i = j}

\* index of x in the sequence s, 0 if absent
IndexOf(s, x) ==
    IF \E i \in 1..Len(s) : s[i] = x
    THEN CHOOSE i \in 1..Len(s) : s[i] = x /\ \A j \in 1..(i-1) : s[j] # x
    ELSE 0

InSeq(s, x) == \E i \in 1..Len(s) : s[i] = x

----------------------------------------------------------------------------
(* Dependency graph *)

\* Layer.String()
LayerString(l) ==
    LET layers == <<"foundation", "platform", "infrastructure",
                    "application", "configuration", "runtime">>
    IN IF l >= Len(layers) THEN "unknown" ELSE layers[l + 1]

\* mutant of ValidateLayerDependency: rejects a dependency inside one layer too
ValidateLayerDependency_SameLayerRejected(from, to) ==
    IF from <= to
    THEN <<"resource in layer %s cannot depend on layer %s", LayerString(from), LayerString(to)>>
    ELSE NoErr

\* ValidateLayerDependency(from, to): the error, or NoErr
ValidateLayerDependency(from, to) ==
    IF from < to
    THEN <<"resource in layer %s cannot depend on layer %s", LayerString(from), LayerString(to)>>
    ELSE NoErr

\* g.edges[id]; a missing key reads as the empty slice
EdgesOf(E, id) == IF id \in DOMAIN E THEN E[id] ELSE <<>>

\* the set of (from, position) pairs of the Required edges
RequiredEdges(E) ==
    {p \in UNION {{<<id, i>> : i \in 1..Len(E[id])} : id \in DOMAIN E} : E[p[1]][p[2]].Required}

\* mutant of InDegree: counts every edge, Required or not
InDegree_CountsAll(N, E) ==
    LET all  == UNION {{<<id, i>> : i \in 1..Len(E[id])} : id \in DOMAIN E}
        keys == DOMAIN N \cup {E[p[1]][p[2]].Target : p \in all}
    IN [id \in keys |-> Cardinality({p \in all : E[p[1]][p[2]].Target = id})]

\* TopologicalSort, lines 48-62: the inDegree map after the counting loops.
\* inDegree[dep.Target]++ creates the key of a target that is not a node.
InDegree(N, E) ==
    LET req  == RequiredEdges(E)
        keys == DOMAIN N \cup {E[p[1]][p[2]].Target : p \in req}
    IN [id \in keys |-> Cardinality({p \in req : E[p[1]][p[2]].Target = id})]

\* TopologicalSort, lines 80-87: the inner loop over g.edges[current], from position k
RECURSIVE ReleaseDeps(_, _, _, _)
ReleaseDeps(deps, k, inDeg, queue) ==
    IF k > Len(deps) THEN [inDeg |-> inDeg, queue |-> queue]
    ELSE IF deps[k].Required
         THEN LET t  == deps[k].Target
                  d2 == [inDeg EXCEPT ![t] = @ - 1]
              IN ReleaseDeps(deps, k + 1, d2,
                             IF d2[t] = 0 THEN Append(queue, t) ELSE queue)
         ELSE ReleaseDeps(deps, k + 1, inDeg, queue)

\* TopologicalSort, lines 74-88: the queue loop
RECURSIVE KahnLoop(_, _, _, _)
KahnLoop(E, queue, inDeg, res) ==
    IF queue = <<>> THEN res
    ELSE LET current == Head(queue)
             r == ReleaseDeps(EdgesOf(E, current), 1, inDeg, Tail(queue))
         IN KahnLoop(E, r.queue, r.inDeg, Append(res, current))

CycleError == <<"circular dependency detected">>

\* Graph.TopologicalSort; iter is the order in which the inDegree map is ranged over
TopologicalSort(N, E, iter) ==
    LET inDeg == InDegree(N, E)
        queue == SelectSeq(iter, LAMBDA id : inDeg[id] = 0)
        res   == KahnLoop(E, queue, inDeg, <<>>)
    IN IF Len(res) # Cardinality(DOMAIN N)
       THEN [result |-> <<>>, err |-> CycleError]
       ELSE [result |-> res, err |-> NoErr]

\* some fixed enumeration of a finite set
SetToSeq(S) == CHOOSE f \in Perms(S) : TRUE

\* the iteration orders of the inDegree map of a graph, up to the positions of the keys
\* that the loop at lines 66-70 skips (those of non-zero degree, put last here)
SortIters(N, E) ==
    LET inDeg == InDegree(N, E)
        zero  == {id \in DOMAIN inDeg : inDeg[id] = 0}
    IN {q \o SetToSeq(DOMAIN inDeg \ zero) : q \in Perms(zero)}

\* ValidateDependencies, lines 109-121: the loop over g.edges[id], from position k
RECURSIVE CheckDeps(_, _, _, _)
CheckDeps(N, id, deps, k) ==
    IF k > Len(deps) THEN NoErr
    ELSE IF deps[k].Required
         THEN IF deps[k].Target \notin DOMAIN N
              THEN <<"resource %s depends on non-existent resource %s", id, deps[k].Target>>
              ELSE LET lerr == ValidateLayerDependency(N[id].Layer, N[deps[k].Target].Layer)
                   IN IF lerr # NoErr
                      THEN Wrap("resource %s", Wrap(id, lerr))
                      ELSE CheckDeps(N, id, deps, k + 1)
         ELSE CheckDeps(N, id, deps, k + 1)

\* ValidateDependencies, lines 106-122: the loop over g.nodes in the order nodeIter, from position k
RECURSIVE CheckNodes(_, _, _, _)
CheckNodes(N, E, nodeIter, k) ==
    IF k > Len(nodeIter) THEN NoErr
    ELSE LET err == CheckDeps(N, nodeIter[k], EdgesOf(E, nodeIter[k]), 1)
         IN IF err # NoErr THEN err ELSE CheckNodes(N, E, nodeIter, k + 1)

\* the errors the call of TopologicalSort can return on a graph, over all iteration orders
SortErrors(N, E) == {TopologicalSort(N, E, iter).err : iter \in SortIters(N, E)}

\* Graph.ValidateDependencies; sortErr is the error of its call of TopologicalSort (the
\* sorted list is dropped) and nodeIter the order in which g.nodes is ranged over
ValidateDependencies(N, E, sortErr, nodeIter) ==
    IF sortErr # NoErr THEN sortErr ELSE CheckNodes(N, E, nodeIter, 1)

\* the errors ValidateDependencies can return on a graph, over all iteration orders
ValidateDependenciesOutcomes(N, E) ==
    {ValidateDependencies(N, E, sortErr, nodeIter) :
        sortErr \in SortErrors(N, E), nodeIter \in Perms(DOMAIN N)}

\* Graph.GetResource: exists?
GetResource(N, id) == id \in DOMAIN N

\* mutant of Validate: only the id is required
Validate_IdOnly(r) ==
    IF r.ID = "" THEN <<"resource ID is required">> ELSE NoErr

\* BaseResource.Validate
Validate(r) ==
    IF r.ID = "" THEN <<"resource ID is required">>
    ELSE IF r.Type = "" THEN <<"resource type is required">>
    ELSE NoErr

\* Graph.AddResource of a valid resource r that declares the dependencies deps: the node
\* and its dependency list are set, replacing those of an earlier resource of that id
AddResource(N, E, r, deps) ==
    [nodes |-> [id \in DOMAIN N \cup {r.ID} |-> IF id = r.ID THEN r ELSE N[id]],
     edges |-> [id \in DOMAIN E \cup {r.ID} |-> IF id = r.ID THEN deps ELSE E[id]]]

\* mutant of RemoveResource: the edges that point to the node are kept
RemoveResource_KeepsIncoming(N, E, id) ==
    [nodes |-> [k \in DOMAIN N \ {id} |-> N[k]],
     edges |-> [k \in DOMAIN E \ {id} |-> E[k]]]

\* Graph.RemoveResource: the node, its dependency list and every edge that points to it
RemoveResource(N, E, id) ==
    [nodes |-> [k \in DOMAIN N \ {id} |-> N[k]],
     edges |-> [k \in DOMAIN E \ {id} |-> SelectSeq(E[k], LAMBDA d : d.Target # id)]]

\* Graph.GetDependents: the ids whose dependency list has an edge to id, of any kind
GetDependents(E, id) ==
    {k \in DOMAIN E : \E i \in 1..Len(E[k]) : E[k][i].Target = id}

----------------------------------------------------------------------------
(* Input graphs *)

\* BaseResource as built by ResourceParser.CreateResourceFromPackage, at a given layer
MkResource(id, layer) ==
    [ID |-> id, Type |-> "package", Layer |-> layer,
     Config |-> [name |-> id, version |-> "1.0"]]

\* every assignment of dependency lists to ids with at most k edges in total
RECURSIVE EdgeLists(_, _, _)
EdgeLists(ids, targets, k) ==
    IF k = 0 THEN {[id \in ids |-> <<>>]}
    ELSE LET prev == EdgeLists(ids, targets, k - 1)
         IN prev \cup {[e EXCEPT ![f] = Append(e[f], Dependency(t, req))] :
                          e \in prev, f \in ids, t \in targets, req \in BOOLEAN}

\* as EdgeLists, with Required edges only
RECURSIVE RequiredLists(_, _, _)
RequiredLists(ids, targets, k) ==
    IF k = 0 THEN {[id \in ids |-> <<>>]}
    ELSE LET prev == RequiredLists(ids, targets, k - 1)
         IN prev \cup {[e EXCEPT ![f] = Append(e[f], Dependency(t, TRUE))] :
                          e \in prev, f \in ids, t \in targets}

\* the layerings of the layer checks: the first two resources at any layers, every other
\* one at the infrastructure layer (above, at and below the layers of the first two)
AllLayerings(ids) ==
    {ly \in [ids -> Layers] :
        \A id \in ids \ {IdPool[1], IdPool[2]} : ly[id] = LayerInfrastructure}

\* the layerings of the pipeline runs: every resource at the platform layer, as
\* ResourceParser declares packages, or the i-th resource at the i-th layer
PipeLayerings(ids) ==
    { [id \in ids |-> LayerPlatform],
      [id \in ids |-> (CHOOSE i \in 1..Len(IdPool) : IdPool[i] = id) - 1] }

\* the graph AddResource builds from the resources r1..rm at the layers ly with the
\* dependency lists e
Graph(m, ly, e) ==
    [nodes |-> [id \in Ids(m) |-> MkResource(id, ly[id])], edges |-> e]

----------------------------------------------------------------------------
(* Graph calls on a graph that was built by AddResource *)

NoRet == [op |-> "none", result |-> <<>>, err |-> NoErr]

\* a caller invokes g.TopologicalSort()
CallTopologicalSort ==
    /\ pc = "graph"
    /\ \E iter \in SortIters(nodes, edges) :
         LET ts == TopologicalSort(nodes, edges, iter)
         IN ret' = [op |-> "TopologicalSort", result |-> ts.result, err |-> ts.err]
    /\ UNCHANGED <<graphVars, pipeVars>>

\* a caller invokes g.ValidateDependencies()
CallValidateDependencies ==
    /\ pc = "graph"
    /\ \E err \in ValidateDependenciesOutcomes(nodes, edges) :
         ret' = [op |-> "ValidateDependencies", result |-> <<>>, err |-> err]
    /\ UNCHANGED <<graphVars, pipeVars>>

NoPlan   == [Actions |-> <<>>, CreatedAt |-> 0]
NoNext   == [called |-> FALSE, after |-> "none", reloaded |-> FALSE,
             Actions |-> <<>>, err |-> NoErr]
\* no package manager call has been made
NoBatch  == [op |-> "none", n |-> 0, i |-> 0, successCount |-> 0,
             failureCount |-> 0, results |-> <<>>, returned |-> FALSE,
             exists |-> FALSE, err |-> <<>>]

\* a goroutine of the ping command that has not been started
NoTask   == [pc |-> "none", ok |-> FALSE, tmp |-> 0]

\* the ping command has not been run
NoProbe  == [pc |-> "idle", m |-> 0, selected |-> {}, i |-> 0, wg |-> 0, task |-> <<>>,
             pinged |-> <<>>, successCount |-> 0, failureCount |-> 0,
             Success |-> 0, Failure |-> 0]

\* NewExecutor: no host is configured
NoRemote == [set |-> FALSE, hosts |-> {}, installed |-> <<>>]

\* nothing outside the pipeline is in flight
AuxIdle == batch = NoBatch /\ probe = NoProbe /\ shared = {} /\ remote = NoRemote

\* no RunCommand call has been made
NoCmd    == [pc |-> "idle", go |-> "none", chan |-> <<>>, val |-> [Error |-> <<>>],
             events |-> <<>>, woken |-> "none", ready |-> {}, out |-> "none",
             err |-> <<>>, signalled |-> FALSE, closed |-> FALSE, cancellable |-> FALSE,
             reported |-> FALSE, action |-> 0]
NoResult == [StartedAt |-> 0, CompletedAt |-> 0, FailedAt |-> 0, Success |-> FALSE,
             Error |-> NoErr, Actions |-> <<>>]

\* a graph built by AddResource, before any call on it
GraphBuilt(g) ==
    /\ nodes = g.nodes
    /\ edges = g.edges
    /\ ret = NoRet
    /\ state = <<>>
    /\ stateFile = [exists |-> FALSE, data |-> <<>>]
    /\ plan = NoPlan
    /\ planErr = NoErr
    /\ result = NoResult
    /\ execErr = NoErr
    /\ pc = "graph"
    /\ idx = 0
    /\ calls = <<>>
    /\ touched = <<>>
    /\ state0 = <<>>
    /\ next = NoNext
    /\ cancelAt = 0
    /\ clock = 1
    /\ cmd = NoCmd
    /\ AuxIdle

\* graphs of at most MaxNodes nodes and MaxEdges declared edges; the targets range over
\* one id more than the nodes, so there are targets that are not nodes
InitGraph ==
    \E m \in 0..MaxNodes : \E ly \in PipeLayerings(Ids(m)) :
        \E e \in EdgeLists(Ids(m), Ids(MaxNodes + 1), MaxEdges) : GraphBuilt(Graph(m, ly, e))

\* the same over the layerings of the layer checks
InitLayers ==
    \E m \in 0..LayerNodes : \E ly \in AllLayerings(Ids(m)) :
        \E e \in EdgeLists(Ids(m), Ids(LayerNodes + 1), LayerEdges) : GraphBuilt(Graph(m, ly, e))

NextGraph == CallTopologicalSort \/ CallValidateDependencies

\* the dependency lists a resource handed to AddResource declares: none, one edge, or a
\* Required edge followed by a non-required one
DeclaredDeps ==
    {<<>>} \cup {<<Dependency(t, req)>> : t \in Ids(BuildRes), req \in BOOLEAN}
           \cup UNION {{<<Dependency(t, TRUE), Dependency(u, FALSE)>> :
                           u \in Ids(BuildRes) \ {t}} : t \in Ids(BuildRes)}

\* a caller invokes g.AddResource(r); the id or the type of r may be empty, and such a
\* resource declares no dependency or one on the first id
CallAddResource ==
    /\ pc = "graph"
    /\ idx < BuildOps
    /\ \E id \in Ids(BuildRes) \cup {""}, type \in {"package", ""}, deps \in DeclaredDeps :
         LET r    == [MkResource(id, LayerPlatform) EXCEPT !.Type = type]
             verr == Validate(r)
             g    == AddResource(nodes, edges, r, deps)
         IN /\ (id = "" \/ type = "") => deps \in {<<>>, <<Dependency(IdPool[1], TRUE)>>}
            /\ nodes' = IF verr = NoErr THEN g.nodes ELSE nodes
            /\ edges' = IF verr = NoErr THEN g.edges ELSE edges
            /\ ret' = [op |-> "AddResource", result |-> <<>>,
                       err |-> IF verr = NoErr THEN NoErr
                               ELSE Wrap("invalid resource %s", <<id>> \o verr),
                       r |-> r, deps |-> deps, existed |-> id \in DOMAIN nodes]
    /\ idx' = idx + 1
    /\ UNCHANGED <<auxVars, cmd, state, stateFile, plan, planErr, result, execErr, pc, calls, touched,
                   state0, next, cancelAt, clock>>

\* a caller invokes g.RemoveResource(id), for a node or for an id that is none
CallRemoveResource ==
    /\ pc = "graph"
    /\ idx < BuildOps
    /\ \E id \in Ids(BuildRes) :
         LET g == RemoveResource(nodes, edges, id)
         IN /\ nodes' = g.nodes
            /\ edges' = g.edges
            /\ ret' = [op |-> "RemoveResource", result |-> <<>>, err |-> NoErr, id |-> id,
                       existed |-> id \in DOMAIN nodes,
                       dependents |-> GetDependents(edges, id)]
    /\ idx' = idx + 1
    /\ UNCHANGED <<auxVars, cmd, state, stateFile, plan, planErr, result, execErr, pc, calls, touched,
                   state0, next, cancelAt, clock>>

\* a caller invokes g.GetDependents(id); the list comes in map iteration order
CallGetDependents ==
    /\ pc = "graph"
    /\ idx < BuildOps
    /\ \E id \in Ids(BuildRes) : \E order \in Perms(GetDependents(edges, id)) :
         ret' = [op |-> "GetDependents", result |-> order, err |-> NoErr, id |-> id]
    /\ idx' = idx + 1
    /\ UNCHANGED <<auxVars, cmd, graphVars, state, stateFile, plan, planErr, result, execErr, pc, calls,
                   touched, state0, next, cancelAt, clock>>

\* NewGraph()
InitBuild == GraphBuilt([nodes |-> <<>>, edges |-> <<>>])

NextBuild ==
    CallAddResource \/ CallRemoveResource \/ CallGetDependents \/ CallTopologicalSort

\* a graph under construction
SpecBuild == InitBuild /\ [][NextBuild]_vars

SpecGraph == InitGraph /\ [][NextGraph]_vars

SpecLayers == InitLayers /\ [][NextGraph]_vars

----------------------------------------------------------------------------
(* State store *)

\* json.Marshal of a configuration map: keys in sorted order
ConfigKeyOrder == <<"manager", "name", "version">>

Marshal(config) ==
    LET keys == SelectSeq(ConfigKeyOrder, LAMBDA k : k \in DOMAIN config)
        RECURSIVE Fields(_)
        Fields(i) == IF i > Len(keys) THEN <<>>
                     ELSE <<keys[i], config[keys[i]]>> \o Fields(i + 1)
    IN <<"{">> \o Fields(1) \o <<"}">>

\* json.Unmarshal of the bytes of a configuration map into a map[string]interface{}
Unmarshal(bytes) ==
    LET n == (Len(bytes) - 2) \div 2
    IN [k \in {bytes[2 * i] : i \in 1..n} |->
           bytes[1 + 2 * (CHOOSE i \in 1..n : bytes[2 * i] = k)]]

\* StateManager.GetState(id) # nil
HasState(S, id) == id \in DOMAIN S

\* StateManager.SetState
SetState(S, id, st) == (id :> st) @@ S

\* mutant of SaveState: adds the entries of the store to the document
SaveState_Incremental(S, F, ok) == IF ok THEN [exists |-> TRUE, data |-> S @@ F.data] ELSE F

\* StateManager.SaveState: the document after the call; ok = the write succeeded
SaveState(S, F, ok) == IF ok THEN [exists |-> TRUE, data |-> S] ELSE F

SaveError == <<"failed to write state file">>

\* a state entry after it was written by SaveState and read back by LoadState: the
\* configuration snapshot comes back as the map decoded from its bytes
DecodeEntry(st) ==
    [st EXCEPT !.Metadata = [k \in DOMAIN st.Metadata |->
                                IF k = "config" THEN Unmarshal(Marshal(st.Metadata[k]))
                                ELSE st.Metadata[k]]]

\* the state file holds bytes that json.Unmarshal rejects
Malformed(F) == "malformed" \in DOMAIN F

\* a state file with such bytes
MalformedFile == [exists |-> TRUE, data |-> <<>>, malformed |-> TRUE]

\* mutant of LoadState: the entries of the document are added to those of the store
LoadState_Merges(S, F) ==
    IF ~F.exists \/ Malformed(F) THEN S
    ELSE [id \in DOMAIN F.data |-> DecodeEntry(F.data[id])] @@ S

\* StateManager.LoadState on the store S: untouched if there is no file or if its bytes
\* are rejected, else the decoded document
LoadState(S, F) ==
    IF ~F.exists \/ Malformed(F) THEN S
    ELSE [id \in DOMAIN F.data |-> DecodeEntry(F.data[id])]

\* StateManager.LoadState: the error it returns
LoadStateError(F) ==
    IF F.exists /\ Malformed(F)
    THEN <<"failed to unmarshal state file", "invalid character">>
    ELSE NoErr

\* mutant of DetectDrift: an entry without a snapshot counts as not drifted
DetectDrift_NoSnapshotNoDrift(S, r) ==
    IF ~HasState(S, r.ID) THEN TRUE
    ELSE IF "config" \notin DOMAIN S[r.ID].Metadata THEN FALSE
    ELSE Marshal(r.Config) # Marshal(S[r.ID].Metadata.config)

\* StateManager.DetectDrift
DetectDrift(S, r) ==
    IF ~HasState(S, r.ID) THEN TRUE
    ELSE IF "config" \notin DOMAIN S[r.ID].Metadata THEN TRUE
    ELSE Marshal(r.Config) # Marshal(S[r.ID].Metadata.config)

\* mutant of MarkApplied: records the checksum but no snapshot of the configuration
MarkApplied_NoSnapshot(S, r, now) ==
    SetState(S, r.ID, [Status |-> StateApplied, LastApplied |-> now,
                       Checksum |-> Marshal(r.Config),
                       Metadata |-> <<>>])

\* mutant of MarkApplied: starts the store afresh with the applied entry
MarkApplied_DropsOthers(S, r, now) ==
    SetState(<<>>, r.ID, [Status |-> StateApplied, LastApplied |-> now,
                          Checksum |-> Marshal(r.Config),
                          Metadata |-> [config |-> r.Config]])

\* StateManager.MarkApplied: the store after SetState
MarkApplied(S, r, now) ==
    SetState(S, r.ID, [Status |-> StateApplied, LastApplied |-> now,
                       Checksum |-> Marshal(r.Config),
                       Metadata |-> [config |-> r.Config]])

\* mutant of MarkFailed: records the error as wrapped by executeAction
MarkFailed_WrappedText(S, r, errorMsg, now) ==
    SetState(S, r.ID, [Status |-> StateFailed, LastApplied |-> now,
                       Checksum |-> <<>>,
                       Metadata |-> [error |-> Wrap("action failed", errorMsg)]])

\* mutant of MarkFailed: starts the store afresh with the failed entry
MarkFailed_DropsOthers(S, r, errorMsg, now) ==
    SetState(<<>>, r.ID, [Status |-> StateFailed, LastApplied |-> now,
                          Checksum |-> <<>>,
                          Metadata |-> [error |-> errorMsg]])

\* mutant of MarkFailed: the entry goes back to Pending
MarkFailed_Pending(S, r, errorMsg, now) ==
    SetState(S, r.ID, [Status |-> StatePending, LastApplied |-> now,
                       Checksum |-> <<>>,
                       Metadata |-> [error |-> errorMsg]])

\* StateManager.MarkFailed: the store after SetState
MarkFailed(S, r, errorMsg, now) ==
    SetState(S, r.ID, [Status |-> StateFailed, LastApplied |-> now,
                       Checksum |-> <<>>,
                       Metadata |-> [error |-> errorMsg]])

\* mutant of ToRemove: the failed entries are removed too
ToRemove_FailedToo(S, N) == {id \in DOMAIN S : id \notin DOMAIN N \/ S[id].Status = StateFailed}

\* StateManager.Cleanup, lines 157-167: the ids of the entries to remove
ToRemove(S, N) == DOMAIN S \ DOMAIN N

\* StateManager.Cleanup: the store after the RemoveState calls
Cleanup(S, N) == [id \in DOMAIN S \ ToRemove(S, N) |-> S[id]]

----------------------------------------------------------------------------
(* Calls on the state store of one resource whose configuration changes *)

\* the configurations the resource r1 is declared with over time
ConfigPool ==
    { [name |-> IdPool[1], version |-> "1.0"],
      [name |-> IdPool[1], version |-> "2.0"],
      [name |-> IdPool[1], version |-> "1.0", manager |-> "apt"] }

\* the record of a call in the history
StoreCall(op, r, saved) ==
    [op |-> op, ResourceID |-> r.ID, saved |-> saved, config |-> r.Config]

\* a caller invokes stateManager.MarkApplied(r1); the write of the file succeeds or not
CallMarkApplied ==
    /\ pc = "store"
    /\ Len(touched) < MaxOps
    /\ \E writeOk \in BOOLEAN :
         LET r  == nodes[IdPool[1]]
             S2 == MarkApplied(state, r, clock)
         IN /\ state' = S2
            /\ stateFile' = SaveState(S2, stateFile, writeOk)
            /\ touched' = Append(touched, StoreCall("MarkApplied", r, writeOk))
            /\ ret' = [op |-> "MarkApplied", result |-> <<>>,
                       err |-> IF writeOk THEN NoErr ELSE SaveError]
            /\ shared' = shared \cup {r.ID}
    /\ clock' = clock + 1
    /\ UNCHANGED <<batch, probe, remote, cmd, graphVars, plan, planErr, result, execErr, pc, idx,
                   calls, state0, next, cancelAt>>

\* a caller invokes stateManager.MarkFailed(r1, msg)
CallMarkFailed ==
    /\ pc = "store"
    /\ Len(touched) < MaxOps
    /\ \E writeOk \in BOOLEAN :
         LET r  == nodes[IdPool[1]]
             S2 == MarkFailed(state, r, <<"failed to install package %s">>, clock)
         IN /\ state' = S2
            /\ stateFile' = SaveState(S2, stateFile, writeOk)
            /\ touched' = Append(touched, StoreCall("MarkFailed", r, writeOk))
            /\ ret' = [op |-> "MarkFailed", result |-> <<>>,
                       err |-> IF writeOk THEN NoErr ELSE SaveError]
            /\ shared' = shared \ {r.ID}
    /\ clock' = clock + 1
    /\ UNCHANGED <<batch, probe, remote, cmd, graphVars, plan, planErr, result, execErr, pc, idx,
                   calls, state0, next, cancelAt>>

\* the declaration of r1 changes: r1.SetConfig(c) with a new map c; the map a snapshot
\* may hold is no longer the one of the resource
CallSetConfig ==
    /\ pc = "store"
    /\ Len(touched) < MaxOps
    /\ \E c \in ConfigPool \ {nodes[IdPool[1]].Config} :
         /\ nodes' = [nodes EXCEPT ![IdPool[1]].Config = c]
         /\ touched' = Append(touched, StoreCall("SetConfig", nodes'[IdPool[1]], FALSE))
    /\ ret' = [op |-> "SetConfig", result |-> <<>>, err |-> NoErr]
    /\ shared' = shared \ {IdPool[1]}
    /\ UNCHANGED <<batch, probe, remote, cmd, edges, state, stateFile, plan, planErr, result,
                   execErr, pc, idx, calls, state0, next, cancelAt, clock>>

\* the map r1.GetConfig() returns is modified in place; a snapshot that holds this very
\* map changes with it, in memory only
CallModifyConfig ==
    /\ pc = "store"
    /\ Len(touched) < MaxOps
    /\ \E c \in ConfigPool \ {nodes[IdPool[1]].Config} :
         /\ nodes' = [nodes EXCEPT ![IdPool[1]].Config = c]
         /\ state' = IF IdPool[1] \in shared
                      THEN [state EXCEPT ![IdPool[1]].Metadata.config = c]
                      ELSE state
         /\ touched' = Append(touched, StoreCall("ModifyConfig", nodes'[IdPool[1]], FALSE))
    /\ ret' = [op |-> "ModifyConfig", result |-> <<>>, err |-> NoErr]
    /\ UNCHANGED <<auxVars, cmd, edges, stateFile, plan, planErr, result, execErr, pc, idx,
                   calls, state0, next, cancelAt, clock>>

\* a caller invokes stateManager.DetectDrift(r1)
CallDetectDrift ==
    /\ pc = "store"
    /\ Len(touched) < MaxOps
    /\ ret' = [op |-> "DetectDrift", result |-> DetectDrift(state, nodes[IdPool[1]]),
               err |-> NoErr]
    /\ touched' = Append(touched, StoreCall("DetectDrift", nodes[IdPool[1]], FALSE))
    /\ UNCHANGED <<auxVars, cmd, graphVars, state, stateFile, plan, planErr, result, execErr, pc, idx,
                   calls, state0, next, cancelAt, clock>>

\* a new state manager (NewStateManager) without a state file, and the resource r1
InitStore ==
    /\ \E c \in ConfigPool :
         nodes = [id \in {IdPool[1]} |-> [MkResource(id, LayerPlatform) EXCEPT !.Config = c]]
    /\ edges = [id \in {IdPool[1]} |-> <<>>]
    /\ ret = NoRet
    /\ state = <<>>
    /\ stateFile = [exists |-> FALSE, data |-> <<>>]
    /\ plan = NoPlan
    /\ planErr = NoErr
    /\ result = NoResult
    /\ execErr = NoErr
    /\ pc = "store"
    /\ idx = 0
    /\ calls = <<>>
    /\ touched = <<>>
    /\ state0 = <<>>
    /\ next = NoNext
    /\ cancelAt = 0
    /\ clock = 1
    /\ cmd = NoCmd
    /\ AuxIdle

NextStore == CallMarkApplied \/ CallMarkFailed \/ CallSetConfig \/ CallDetectDrift

SpecStore == InitStore /\ [][NextStore]_vars

NextAlias ==
    CallMarkApplied \/ CallMarkFailed \/ CallSetConfig \/ CallModifyConfig \/ CallDetectDrift

\* as SpecStore, with the configuration map also modified in place
SpecAlias == InitStore /\ [][NextAlias]_vars

----------------------------------------------------------------------------
(* Calls on the state store of several resources, some of them no longer declared *)

\* stateManager.MarkApplied(r) for a resource of the graph
EntMarkApplied ==
    /\ pc = "entries"
    /\ Len(touched) < EntOps
    /\ \E id \in DOMAIN nodes, writeOk \in BOOLEAN :
         LET S2 == MarkApplied(state, nodes[id], clock)
         IN /\ state' = S2
            /\ stateFile' = SaveState(S2, stateFile, writeOk)
            /\ touched' = Append(touched, [op |-> "MarkApplied", ResourceID |-> id,
                                           saved |-> writeOk])
            /\ ret' = [op |-> "MarkApplied", result |-> <<>>,
                       err |-> IF writeOk THEN NoErr ELSE SaveError]
    /\ state0' = state
    /\ clock' = clock + 1
    /\ UNCHANGED <<auxVars, cmd, graphVars, plan, planErr, result, execErr, pc, idx, calls, next, cancelAt>>

\* stateManager.MarkFailed(r, msg) for a resource of the graph
EntMarkFailed ==
    /\ pc = "entries"
    /\ Len(touched) < EntOps
    /\ \E id \in DOMAIN nodes, writeOk \in BOOLEAN :
         LET S2 == MarkFailed(state, nodes[id], <<"failed to install package %s">>, clock)
         IN /\ state' = S2
            /\ stateFile' = SaveState(S2, stateFile, writeOk)
            /\ touched' = Append(touched, [op |-> "MarkFailed", ResourceID |-> id,
                                           saved |-> writeOk])
            /\ ret' = [op |-> "MarkFailed", result |-> <<>>,
                       err |-> IF writeOk THEN NoErr ELSE SaveError]
    /\ state0' = state
    /\ clock' = clock + 1
    /\ UNCHANGED <<auxVars, cmd, graphVars, plan, planErr, result, execErr, pc, idx, calls, next, cancelAt>>

\* stateManager.Cleanup(); the file is written only if an entry was removed
EntCleanup ==
    /\ pc = "entries"
    /\ Len(touched) < EntOps
    /\ \E writeOk \in (IF ToRemove(state, nodes) # {} THEN BOOLEAN ELSE {TRUE}) :
         LET S2 == Cleanup(state, nodes)
         IN /\ state' = S2
            /\ stateFile' = IF ToRemove(state, nodes) # {}
                             THEN SaveState(S2, stateFile, writeOk) ELSE stateFile
            /\ touched' = Append(touched, [op |-> "Cleanup", removed |-> ToRemove(state, nodes),
                                           saved |-> ToRemove(state, nodes) # {} /\ writeOk])
            /\ ret' = [op |-> "Cleanup", result |-> <<>>,
                       err |-> IF writeOk THEN NoErr ELSE SaveError]
    /\ state0' = state
    /\ UNCHANGED <<auxVars, cmd, graphVars, plan, planErr, result, execErr, pc, idx, calls, next, cancelAt,
                   clock>>

\* a resource is no longer declared: graph.RemoveResource(id)
EntRemoveResource ==
    /\ pc = "entries"
    /\ Len(touched) < EntOps
    /\ \E id \in DOMAIN nodes :
         LET g == RemoveResource(nodes, edges, id)
         IN /\ nodes' = g.nodes
            /\ edges' = g.edges
            /\ touched' = Append(touched, [op |-> "RemoveResource", ResourceID |-> id,
                                           saved |-> FALSE])
    /\ ret' = [op |-> "RemoveResource", result |-> <<>>, err |-> NoErr]
    /\ state0' = state
    /\ UNCHANGED <<auxVars, cmd, state, stateFile, plan, planErr, result, execErr, pc, idx, calls, next,
                   cancelAt, clock>>

\* stateManager.LoadState()
EntLoadState ==
    /\ pc = "entries"
    /\ Len(touched) < EntOps
    /\ state' = LoadState(state, stateFile)
    /\ ret' = [op |-> "LoadState", result |-> <<>>, err |-> LoadStateError(stateFile)]
    /\ touched' = Append(touched, [op |-> "LoadState", saved |-> FALSE])
    /\ state0' = state
    /\ UNCHANGED <<auxVars, cmd, graphVars, stateFile, plan, planErr, result, execErr, pc, idx, calls, next,
                   cancelAt, clock>>

\* the entries a state file can hold for the id of a package resource
FileEntries(id) ==
    LET c == MkResource(id, LayerPlatform).Config
    IN { [Status |-> StateApplied, LastApplied |-> 0, Checksum |-> Marshal(c),
          Metadata |-> [config |-> c]],
         [Status |-> StateFailed, LastApplied |-> 0, Checksum |-> <<>>,
          Metadata |-> [error |-> <<"failed to install package %s">>]] }

\* the state manager of a graph of resources without dependencies, after LoadState read a
\* file that an earlier run wrote, perhaps for resources that are no longer declared, or
\* with an empty store and a file that cannot be decoded
InitEntries ==
    /\ \E m \in 0..EntRes : nodes = [id \in Ids(m) |-> MkResource(id, LayerPlatform)]
    /\ edges = [id \in DOMAIN nodes |-> <<>>]
    /\ ret = NoRet
    /\ \E ids \in SUBSET Ids(EntRes) :
         /\ state \in [ids -> UNION {FileEntries(id) : id \in ids}]
         /\ \A id \in ids : state[id] \in FileEntries(id)
    /\ \/ stateFile = [exists |-> state # <<>>, data |-> state]
       \/ state = <<>> /\ stateFile = MalformedFile
    /\ plan = NoPlan
    /\ planErr = NoErr
    /\ result = NoResult
    /\ execErr = NoErr
    /\ pc = "entries"
    /\ idx = 0
    /\ calls = <<>>
    /\ touched = <<>>
    /\ state0 = state
    /\ next = NoNext
    /\ cancelAt = 0
    /\ clock = 1
    /\ cmd = NoCmd
    /\ AuxIdle

NextEntries ==
    EntMarkApplied \/ EntMarkFailed \/ EntCleanup \/ EntRemoveResource \/ EntLoadState

SpecEntries == InitEntries /\ [][NextEntries]_vars

----------------------------------------------------------------------------
(* Planner *)

MkAction(id, type, reason) ==
    [ResourceID |-> id, Type |-> type, Changes |-> <<>>, Metadata |-> [reason |-> reason]]

\* mutant of planResource: goes by the status label of the entry
planResource_ByStatus(S, r) ==
    IF ~HasState(S, r.ID) THEN MkAction(r.ID, ActionCreate, "resource not in state")
    ELSE IF S[r.ID].Status = StateApplied /\ ~DetectDrift(S, r)
    THEN MkAction(r.ID, ActionNoOp, "resource up to date")
    ELSE IF S[r.ID].Status = StateFailed
    THEN MkAction(r.ID, ActionNoOp, "resource up to date")
    ELSE MkAction(r.ID, ActionUpdate, "configuration drift detected")

\* mutant of planResource: an entry of any content makes the resource up to date
planResource_EntryMeansNoOp(S, r) ==
    IF ~HasState(S, r.ID) THEN MkAction(r.ID, ActionCreate, "resource not in state")
    ELSE MkAction(r.ID, ActionNoOp, "resource up to date")

\* mutant of planResource: a resource whose last action failed is planned for deletion
planResource_DeletesFailed(S, r) ==
    IF ~HasState(S, r.ID) THEN MkAction(r.ID, ActionCreate, "resource not in state")
    ELSE IF S[r.ID].Status = StateFailed THEN MkAction(r.ID, ActionDelete, "resource failed")
    ELSE IF DetectDrift(S, r) THEN MkAction(r.ID, ActionUpdate, "configuration drift detected")
    ELSE MkAction(r.ID, ActionNoOp, "resource up to date")

\* Planner.planResource
planResource(S, r) ==
    IF ~HasState(S, r.ID) THEN MkAction(r.ID, ActionCreate, "resource not in state")
    ELSE IF DetectDrift(S, r) THEN MkAction(r.ID, ActionUpdate, "configuration drift detected")
    ELSE MkAction(r.ID, ActionNoOp, "resource up to date")

\* Planner.Plan for one iteration order of the sort: [plan, err]
PlanOf(N, E, S, iter, now) ==
    LET ts == TopologicalSort(N, E, iter)
        order == ts.result
        absent == {i \in 1..Len(order) : ~GetResource(N, order[i])}
    IN IF ts.err # NoErr
       THEN [plan |-> [Actions |-> <<>>, CreatedAt |-> 0],
             err |-> Wrap("failed to sort resources", ts.err)]
       ELSE IF absent # {}
       THEN [plan |-> [Actions |-> <<>>, CreatedAt |-> 0],
             err |-> <<"resource %s not found in graph",
                       order[CHOOSE i \in absent : \A j \in absent : i <= j]>>]
       ELSE [plan |-> [Actions |-> [i \in 1..Len(order) |-> planResource(S, N[order[i]])],
                       CreatedAt |-> now],
             err |-> NoErr]

\* mutant of ValidatePlan: checks for cycles only
ValidatePlan_SortOnly(sortErr, depErr) ==
    IF sortErr # NoErr THEN Wrap("plan validation failed", sortErr) ELSE NoErr

\* Plan.ValidatePlan; sortErr is the error of its call of TopologicalSort and depErr
\* that of its call of ValidateDependencies
ValidatePlan(sortErr, depErr) ==
    IF sortErr # NoErr THEN Wrap("plan validation failed", sortErr)
    ELSE IF depErr # NoErr THEN Wrap("plan validation failed", depErr)
    ELSE NoErr

\* the errors ValidatePlan can return on a graph, over all iteration orders
ValidatePlanOutcomes(N, E) ==
    {ValidatePlan(sortErr, depErr) :
        sortErr \in SortErrors(N, E), depErr \in ValidateDependenciesOutcomes(N, E)}

----------------------------------------------------------------------------
(* Executor *)

\* errors PackageResource.Apply returns when the remote side fails: the connection cannot
\* be made, or the check of its one package fails (the installation is reached only if
\* DoesExist returns false without an error, which it does not for one package)
ApplyErrors ==
    { <<"failed to check if package exists", "all package checks failed on host %s">>,
      <<"failed to create apt manager", "failed to create SSH client", "EOF">> }

\* errors PackageResource.Destroy returns when the remote side fails
DestroyErrors ==
    { <<"failed to remove package %s", "all package removals failed on host %s">> }

\* ExecutionResult.GetSuccessCount
GetSuccessCount(res) == Cardinality({i \in 1..Len(res.Actions) : res.Actions[i].Error = NoErr})

\* ExecutionResult.GetFailureCount
GetFailureCount(res) == Cardinality({i \in 1..Len(res.Actions) : res.Actions[i].Error # NoErr})

\* mutant of executeAction: a NoOp action is applied like an Update
executeAction_NoOpApplies(a, N, S, F, callErr, writeOk, now) ==
    LET S2 == MarkApplied(S, N[a.ResourceID], now + 1)
    IN [execAction |-> [Action |-> a, StartedAt |-> now, CompletedAt |-> now + 1,
                        FailedAt |-> 0, Error |-> NoErr],
        err |-> NoErr,
        state |-> S2,
        stateFile |-> SaveState(S2, F, TRUE),
        calls |-> <<[ResourceID |-> a.ResourceID,
                     op |-> IF a.Type = ActionDelete THEN "Destroy" ELSE "Apply"]>>,
        touched |-> <<[op |-> "MarkApplied", ResourceID |-> a.ResourceID, saved |-> TRUE]>>]

\* Executor.executeAction on action a, the resource call returning callErr and the state
\* file write succeeding or not: [execAction, err, state, stateFile, calls, touched]
executeAction(a, N, S, F, callErr, writeOk, now) ==
    LET started == [Action |-> a, StartedAt |-> now, CompletedAt |-> 0, FailedAt |-> 0,
                    Error |-> NoErr]
        same == [state |-> S, stateFile |-> F, calls |-> <<>>, touched |-> <<>>]
    IN IF ~GetResource(N, a.ResourceID)
       THEN LET e == <<"resource %s not found", a.ResourceID>>
            IN same @@ [execAction |-> [started EXCEPT !.FailedAt = now + 1, !.Error = e],
                        err |-> e]
       ELSE IF a.Type = ActionNoOp
       THEN same @@ [execAction |-> [started EXCEPT !.CompletedAt = now + 1], err |-> NoErr]
       ELSE LET r == N[a.ResourceID]
                call == [ResourceID |-> a.ResourceID,
                         op |-> IF a.Type = ActionDelete THEN "Destroy" ELSE "Apply"]
            IN IF callErr # NoErr
               THEN LET S2 == MarkFailed(S, r, callErr, now + 1)
                    IN [execAction |-> [started EXCEPT !.FailedAt = now + 1, !.Error = callErr],
                        err |-> Wrap("action failed", callErr),
                        state |-> S2,
                        stateFile |-> SaveState(S2, F, writeOk),
                        calls |-> <<call>>,
                        touched |-> <<[op |-> "MarkFailed", ResourceID |-> a.ResourceID,
                                       saved |-> writeOk]>>]
               ELSE LET S2 == MarkApplied(S, r, now + 1)
                        saveErr == IF writeOk THEN NoErr ELSE SaveError
                    IN [execAction |->
                            IF writeOk THEN [started EXCEPT !.CompletedAt = now + 1]
                            ELSE [started EXCEPT !.FailedAt = now + 1, !.Error = saveErr],
                        err |-> IF writeOk THEN NoErr
                                ELSE Wrap("failed to mark resource as applied", saveErr),
                        state |-> S2,
                        stateFile |-> SaveState(S2, F, writeOk),
                        calls |-> <<call>>,
                        touched |-> <<[op |-> "MarkApplied", ResourceID |-> a.ResourceID,
                                       saved |-> writeOk]>>]

\* the outcomes the resource call of an action can have
CallOutcomes(a) ==
    IF a.Type = ActionNoOp THEN {NoErr}
    ELSE IF a.Type = ActionDelete THEN {NoErr} \cup DestroyErrors
    ELSE {NoErr} \cup ApplyErrors

----------------------------------------------------------------------------
(* The plan / execute pipeline *)


\* state entries a previous run can have left in the state file for resource r:
\* applied with the configuration declared now, or applied with an older configuration
LoadedEntries(r) ==
    { [Status |-> StateApplied, LastApplied |-> 0, Checksum |-> Marshal(c),
       Metadata |-> [config |-> c]] :
         c \in {r.Config, [r.Config EXCEPT !.version = "0.9"]} }

\* the stores LoadState can produce for a graph: a subset of its resources has an entry
LoadedStores(N) ==
    UNION {{S \in [ids -> UNION {LoadedEntries(N[id]) : id \in ids}] :
               \A id \in ids : S[id] \in LoadedEntries(N[id])} : ids \in SUBSET DOMAIN N}

\* the graph is built and the state file is loaded; nothing is planned yet
Loaded(g) ==
    /\ nodes = g.nodes
    /\ edges = g.edges
    /\ ret = NoRet
    /\ state \in LoadedStores(nodes)
    /\ stateFile = [exists |-> state # <<>>, data |-> state]
    /\ plan = NoPlan
    /\ planErr = NoErr
    /\ result = NoResult
    /\ execErr = NoErr
    /\ pc = "idle"
    /\ idx = 0
    /\ calls = <<>>
    /\ touched = <<>>
    /\ state0 = state
    /\ next = NoNext
    /\ cancelAt = 0
    /\ clock = 1
    /\ cmd = NoCmd
    /\ AuxIdle

\* resources without dependencies
Init ==
    \E m \in 0..MaxRes : \E ly \in PipeLayerings(Ids(m)) :
        \E e \in EdgeLists(Ids(m), Ids(m), 0) : Loaded(Graph(m, ly, e))

\* resources with dependencies; the targets range over one id more than the resources
InitDeps ==
    \E m \in 0..DepRes : \E ly \in PipeLayerings(Ids(m)) :
        \E e \in EdgeLists(Ids(m), Ids(DepRes + 1), DepEdges) : Loaded(Graph(m, ly, e))

\* state entries earlier runs can have left for resource r: those of LoadedEntries, or
\* the entry of a failed action
RunEntries(r) ==
    LoadedEntries(r) \cup
    { [Status |-> StateFailed, LastApplied |-> 0, Checksum |-> <<>>,
       Metadata |-> [error |-> e]] : e \in DestroyErrors }

RunStores(N) ==
    UNION {{S \in [ids -> UNION {RunEntries(N[id]) : id \in ids}] :
               \A id \in ids : S[id] \in RunEntries(N[id])} : ids \in SUBSET DOMAIN N}

\* as Loaded, over the stores of RunStores
LoadedRuns(g) ==
    /\ nodes = g.nodes
    /\ edges = g.edges
    /\ ret = NoRet
    /\ state \in RunStores(nodes)
    /\ stateFile = [exists |-> state # <<>>, data |-> state]
    /\ plan = NoPlan
    /\ planErr = NoErr
    /\ result = NoResult
    /\ execErr = NoErr
    /\ pc = "idle"
    /\ idx = 0
    /\ calls = <<>>
    /\ touched = <<>>
    /\ state0 = state
    /\ next = NoNext
    /\ cancelAt = 0
    /\ clock = 1
    /\ cmd = NoCmd
    /\ AuxIdle

\* resources without dependencies, after earlier runs
InitRuns ==
    \E m \in 0..RunRes : \E ly \in PipeLayerings(Ids(m)) :
        \E e \in EdgeLists(Ids(m), Ids(m), 0) : LoadedRuns(Graph(m, ly, e))

\* package resources (all at the platform layer) with dependencies, after earlier runs
InitPlan ==
    \E m \in 0..PlanRes : \E e \in EdgeLists(Ids(m), Ids(PlanRes + 1), PlanEdges) :
        LoadedRuns(Graph(m, [id \in Ids(m) |-> LayerPlatform], e))

\* resources with Required dependencies, with an empty state file or with every resource
\* applied as declared
InitMutate ==
    \E m \in 0..MutRes : \E ly \in PipeLayerings(Ids(m)) :
        \E e \in RequiredLists(Ids(m), Ids(MutRes + 1), MutEdges) :
            /\ Loaded(Graph(m, ly, e))
            /\ state = <<>> \/ DOMAIN state = DOMAIN nodes
            /\ \A id \in DOMAIN state : state[id].Metadata.config = nodes[id].Config

\* planner.Plan()
Plan ==
    /\ pc = "idle"
    /\ \E iter \in SortIters(nodes, edges) :
         LET p == PlanOf(nodes, edges, state, iter, clock)
         IN /\ plan' = p.plan
            /\ planErr' = p.err
            /\ pc' = IF p.err = NoErr THEN "planned" ELSE "planfailed"
    /\ clock' = clock + 1
    /\ UNCHANGED <<auxVars, cmd, graphVars, ret, next, cancelAt, state, stateFile, result, execErr, idx, calls,
                   touched, state0>>

\* the resources in declaration order, as the clean command holds them
RECURSIVE Declared(_, _)
Declared(N, i) ==
    IF i > Len(IdPool) THEN <<>>
    ELSE (IF IdPool[i] \in DOMAIN N THEN <<IdPool[i]>> ELSE <<>>) \o Declared(N, i + 1)

\* the clean command: validate the graph, then build a plan that deletes every resource
CleanPlan ==
    /\ pc = "idle"
    /\ NoErr \in ValidateDependenciesOutcomes(nodes, edges)
    /\ plan' = [Actions |-> [i \in 1..Len(Declared(nodes, 1)) |->
                               MkAction(Declared(nodes, 1)[i], ActionDelete, "cleanup requested")],
                CreatedAt |-> clock]
    /\ planErr' = NoErr
    /\ pc' = "planned"
    /\ clock' = clock + 1
    /\ UNCHANGED <<auxVars, cmd, graphVars, ret, next, cancelAt, state, stateFile, result, execErr, idx, calls,
                   touched, state0>>

\* a caller builds a plan over the graph as it is, as the clean command does at lines
\* 86-101 but without validating the graph first
HandPlan ==
    /\ pc = "idle"
    /\ plan' = [Actions |-> [i \in 1..Len(Declared(nodes, 1)) |->
                               MkAction(Declared(nodes, 1)[i], ActionDelete, "cleanup requested")],
                CreatedAt |-> clock]
    /\ planErr' = NoErr
    /\ pc' = "planned"
    /\ clock' = clock + 1
    /\ UNCHANGED <<auxVars, cmd, graphVars, ret, next, cancelAt, state, stateFile, result, execErr, idx, calls,
                   touched, state0>>

\* between planning and Execute the graph of the plan is changed by one AddResource call:
\* a resource is added, or re-added at the platform or infrastructure layer, with the
\* dependencies it had or with one more Required dependency
GraphAddResource ==
    /\ pc = "planned"
    /\ ret.op = "none"
    /\ \E id \in Ids(MutRes), layer \in {LayerPlatform, LayerInfrastructure} :
         \E deps \in {EdgesOf(edges, id)} \cup
                      {Append(EdgesOf(edges, id), Dependency(t, TRUE)) : t \in Ids(MutRes + 1)} :
            LET g == AddResource(nodes, edges, MkResource(id, layer), deps)
            IN /\ nodes' = g.nodes
               /\ edges' = g.edges
    /\ ret' = [op |-> "AddResource", result |-> <<>>, err |-> NoErr]
    /\ UNCHANGED pipeVars

\* between planning and Execute the graph of the plan is changed by one RemoveResource call
GraphRemoveResource ==
    /\ pc = "planned"
    /\ ret.op = "none"
    /\ \E id \in DOMAIN nodes :
            LET g == RemoveResource(nodes, edges, id)
            IN /\ nodes' = g.nodes
               /\ edges' = g.edges
    /\ ret' = [op |-> "RemoveResource", result |-> <<>>, err |-> NoErr]
    /\ UNCHANGED pipeVars

\* Executor.Execute up to its loop: the result is created and the plan validated
ExecuteStart ==
    /\ pc = "planned"
    /\ \E verr \in ValidatePlanOutcomes(nodes, edges) :
            IF verr # NoErr
            THEN /\ execErr' = Wrap("plan validation failed", verr)
                 /\ result' = NoResult
                 /\ pc' = "rejected"
                 /\ idx' = 0
            ELSE IF Len(plan.Actions) = 0
            THEN /\ execErr' = NoErr
                 /\ result' = [NoResult EXCEPT !.StartedAt = clock,
                                               !.CompletedAt = clock + 1,
                                               !.Success = TRUE]
                 /\ pc' = "done"
                 /\ idx' = 1
            ELSE /\ execErr' = NoErr
                 /\ result' = [NoResult EXCEPT !.StartedAt = clock]
                 /\ pc' = "executing"
                 /\ idx' = 1
    /\ state0' = state
    /\ clock' = clock + 1
    /\ UNCHANGED <<auxVars, cmd, graphVars, ret, next, cancelAt, state, stateFile, plan, planErr, calls, touched>>

\* mutant of ExecuteLoop: reports success whatever the action returned
ExecuteLoop_AlwaysSuccess(res, a, x, i, n, now) ==
    IF x.err # NoErr
    THEN [result  |-> [res EXCEPT !.FailedAt = now + 1, !.Error = x.err, !.Success = TRUE],
          execErr |-> Wrap("execution failed at action %s", Wrap(a.ResourceID, x.err)),
          pc |-> "done", idx |-> i]
    ELSE IF i = n
    THEN [result  |-> [res EXCEPT !.Actions = Append(@, x.execAction),
                                  !.CompletedAt = now + 1, !.Success = TRUE],
          execErr |-> NoErr, pc |-> "done", idx |-> i + 1]
    ELSE [result  |-> [res EXCEPT !.Actions = Append(@, x.execAction)],
          execErr |-> NoErr, pc |-> "executing", idx |-> i + 1]

\* mutant of ExecuteLoop: an action that returned an error is recorded like any other
ExecuteLoop_IgnoresError(res, a, x, i, n, now) ==
    IF i = n
    THEN [result  |-> [res EXCEPT !.Actions = Append(@, x.execAction),
                                  !.CompletedAt = now + 1, !.Success = TRUE],
          execErr |-> NoErr, pc |-> "done", idx |-> i + 1]
    ELSE [result  |-> [res EXCEPT !.Actions = Append(@, x.execAction)],
          execErr |-> NoErr, pc |-> "executing", idx |-> i + 1]

\* mutant of ExecuteLoop: records the error and goes on with the next action
ExecuteLoop_KeepsGoing(res, a, x, i, n, now) ==
    IF x.err # NoErr /\ i < n
    THEN [result  |-> [res EXCEPT !.FailedAt = now + 1, !.Error = x.err],
          execErr |-> Wrap("execution failed at action %s", Wrap(a.ResourceID, x.err)),
          pc |-> "executing", idx |-> i + 1]
    ELSE IF x.err # NoErr
    THEN [result  |-> [res EXCEPT !.FailedAt = now + 1, !.Error = x.err],
          execErr |-> Wrap("execution failed at action %s", Wrap(a.ResourceID, x.err)),
          pc |-> "done", idx |-> i]
    ELSE IF i = n
    THEN [result  |-> [res EXCEPT !.Actions = Append(@, x.execAction),
                                  !.CompletedAt = now + 1, !.Success = TRUE],
          execErr |-> NoErr, pc |-> "done", idx |-> i + 1]
    ELSE [result  |-> [res EXCEPT !.Actions = Append(@, x.execAction)],
          execErr |-> NoErr, pc |-> "executing", idx |-> i + 1]

\* Execute, lines 57-71: what the loop does with the outcome x of executeAction on the
\* i-th of n actions: [result, execErr, pc, idx]
ExecuteLoop(res, a, x, i, n, now) ==
    IF x.err # NoErr
    THEN [result  |-> [res EXCEPT !.FailedAt = now + 1, !.Error = x.err],
          execErr |-> Wrap("execution failed at action %s", Wrap(a.ResourceID, x.err)),
          pc |-> "done", idx |-> i]
    ELSE IF i = n
    THEN [result  |-> [res EXCEPT !.Actions = Append(@, x.execAction),
                                  !.CompletedAt = now + 1, !.Success = TRUE],
          execErr |-> NoErr, pc |-> "done", idx |-> i + 1]
    ELSE [result  |-> [res EXCEPT !.Actions = Append(@, x.execAction)],
          execErr |-> NoErr, pc |-> "executing", idx |-> i + 1]

\* one iteration of the loop of Executor.Execute, and its return when the loop ends
ExecuteAction ==
    /\ pc = "executing"
    /\ LET a == plan.Actions[idx]
       IN \E callErr \in CallOutcomes(a), writeOk \in BOOLEAN :
            LET x == executeAction(a, nodes, state, stateFile, callErr, writeOk, clock)
                l == ExecuteLoop(result, a, x, idx, Len(plan.Actions), clock)
            IN /\ state' = x.state
               /\ stateFile' = x.stateFile
               /\ calls' = calls \o x.calls
               /\ touched' = touched \o x.touched
               /\ result' = l.result
               /\ execErr' = l.execErr
               /\ pc' = l.pc
               /\ idx' = l.idx
    /\ clock' = clock + 2
    /\ UNCHANGED <<auxVars, cmd, graphVars, ret, next, cancelAt, plan, planErr, state0>>

\* the Plan() call that follows: a second call right after Plan() returned, or the call
\* after Execute returned, in the same process or in the next one (which loads the state
\* file first)
PlanAgain ==
    /\ pc \in {"planned", "done"}
    /\ \E reload \in (IF pc = "done" THEN BOOLEAN ELSE {FALSE}) :
         LET S == IF reload THEN LoadState(<<>>, stateFile) ELSE state
         IN /\ state' = S
            /\ \E iter \in SortIters(nodes, edges) :
                 LET p == PlanOf(nodes, edges, S, iter, clock)
                 IN next' = [called |-> TRUE, after |-> pc, reloaded |-> reload,
                             Actions |-> p.plan.Actions, err |-> p.err]
    /\ pc' = "replanned"
    /\ clock' = clock + 1
    /\ UNCHANGED <<auxVars, cmd, graphVars, ret, cancelAt, stateFile, plan, planErr, result, execErr,
                   idx, calls, touched, state0>>

\* the context passed to Execute is cancelled while the action idx is in flight.  Execute
\* and executeAction never read ctx, and Apply / Destroy call the package manager with
\* context.Background(), so nothing but the history changes.
Cancel ==
    /\ pc = "executing"
    /\ cancelAt = 0
    /\ cancelAt' = idx
    /\ UNCHANGED <<auxVars, cmd, graphVars, ret, next, state, stateFile, plan, planErr, result, execErr,
                   pc, idx, calls, touched, state0, clock>>

----------------------------------------------------------------------------
(* SSHClient.RunCommand and the package manager calls that use it *)

\* mutant of CanSend: resultChan is unbuffered, a send needs the caller waiting in select
CanSend_Unbuffered(ch, waiting) == waiting /\ Len(ch) = 0

\* true iff the goroutine's send on resultChan can proceed: the channel is made with
\* capacity 1, whether or not the caller is waiting in select
CanSend(ch, waiting) == Len(ch) < 1

\* what RunCommand returns when the select statement takes the case c; val is the value
\* received from resultChan
RunCommandReturn(c, val) ==
    IF c = "cancel" THEN [err |-> <<"context canceled">>, signalled |-> TRUE]
    ELSE IF c = "timeout" THEN [err |-> <<"command timed out after %s", "1m0s">>,
                                signalled |-> TRUE]
    ELSE [err |-> IF val.Error # NoErr THEN Wrap("failed to run command", val.Error)
                  ELSE NoErr,
          signalled |-> FALSE]

\* failureCount == len(packages) in the package manager calls; errs holds what RunCommand
\* returned for each package
AllFailed(errs) == \A i \in 1..Len(errs) : errs[i] # NoErr

\* AptManager.DoesExist: [exists, err]
DoesExist(errs) ==
    IF AllFailed(errs)
    THEN [exists |-> FALSE, err |-> <<"all package checks failed on host %s">>]
    ELSE [exists |-> \A i \in 1..Len(errs) : errs[i] = NoErr, err |-> NoErr]

\* AptManager.Install
Install(errs) ==
    IF AllFailed(errs) THEN <<"all package installations failed on host %s">> ELSE NoErr

\* AptManager.Remove
Remove(errs) ==
    IF AllFailed(errs) THEN <<"all package removals failed on host %s">> ELSE NoErr

\* PackageResource.Apply once the manager exists; checkErr and installErr are what
\* RunCommand returns for the check and for the installation.  Apply passes one package,
\* for which DoesExist returns an error or true, so the installation is not reached.
Apply(checkErr, installErr) ==
    LET c == DoesExist(<<checkErr>>)
    IN IF c.err # NoErr THEN Wrap("failed to check if package exists", c.err)
       ELSE IF c.exists THEN NoErr
       ELSE IF Install(<<installErr>>) # NoErr
       THEN Wrap("failed to install package %s", Install(<<installErr>>))
       ELSE NoErr

\* PackageResource.Destroy once the manager exists
Destroy(removeErr) ==
    IF Remove(<<removeErr>>) # NoErr
    THEN Wrap("failed to remove package %s", Remove(<<removeErr>>))
    ELSE NoErr

\* the RunCommand call as entered: the session exists, the goroutine is started, the
\* caller is about to evaluate the select statement
StartedCmd(cancellable) ==
    [NoCmd EXCEPT !.pc = "started", !.go = "running", !.cancellable = cancellable]

\* the RunCommand call whose NewSession failed
NoSessionCmd(cancellable) ==
    [NoCmd EXCEPT !.pc = "returned", !.out = "nosession", !.cancellable = cancellable,
                  !.err = <<"failed to create SSH session", "EOF">>]

\* the action Execute is at needs a remote command: it is not a NoOp and its resource is
\* in the graph
NeedsCommand ==
    /\ pc = "executing"
    /\ plan.Actions[idx].Type # ActionNoOp
    /\ GetResource(nodes, plan.Actions[idx].ResourceID)

\* Apply / Destroy of the action Execute is at reaches RunCommand, with
\* context.Background()
RunStart ==
    /\ NeedsCommand
    /\ cmd.pc = "idle" \/ cmd.reported
    /\ cmd.go \in {"none", "done"}
    /\ \E sessionOk \in BOOLEAN :
         cmd' = IF sessionOk THEN StartedCmd(FALSE) ELSE NoSessionCmd(FALSE)
    /\ UNCHANGED <<auxVars, graphVars, ret, next, cancelAt, state, stateFile, plan, planErr, result,
                   execErr, pc, idx, calls, touched, state0, clock>>

\* a caller outside the pipeline invokes RunCommand with a context that can be cancelled
DirectRunCommand ==
    /\ pc = "idle"
    /\ cmd.pc = "idle"
    /\ \E sessionOk \in BOOLEAN :
         cmd' = IF sessionOk THEN StartedCmd(TRUE) ELSE NoSessionCmd(TRUE)
    /\ pc' = "command"
    /\ UNCHANGED <<auxVars, graphVars, ret, next, cancelAt, state, stateFile, plan, planErr, result,
                   execErr, idx, calls, touched, state0, clock>>

\* an event of the select statement happens: it is recorded, and it wakes the caller if
\* the caller is parked in select and no earlier event woke it
Event(c, e) ==
    [c EXCEPT !.events = Append(@, e),
              !.woken = IF c.pc = "parked" /\ c.woken = "none" THEN e ELSE @]

\* session.CombinedOutput returns in the goroutine, with or without an error
CommandCompletes ==
    /\ cmd.go = "running"
    /\ \E ok \in BOOLEAN :
         cmd' = [cmd EXCEPT !.go = "sending",
                            !.val = [Error |-> IF ok THEN NoErr
                                               ELSE <<"Process exited with status 1">>]]
    /\ UNCHANGED <<graphVars, ret, pipeVarsButCmd>>

\* the goroutine sends its result on resultChan and closes the channel
GoSend ==
    /\ cmd.go = "sending"
    /\ CanSend(cmd.chan, cmd.pc = "parked")
    /\ cmd' = [Event(cmd, "result") EXCEPT !.go = "done", !.chan = Append(@, cmd.val)]
    /\ UNCHANGED <<graphVars, ret, pipeVarsButCmd>>

\* the context of the call is cancelled, before or while the caller waits
CtxCancel ==
    /\ cmd.cancellable
    /\ cmd.pc \in {"started", "parked"}
    /\ \A i \in 1..Len(cmd.events) : cmd.events[i] # "cancel"
    /\ cmd' = Event(cmd, "cancel")
    /\ UNCHANGED <<graphVars, ret, pipeVarsButCmd>>

\* the timer of time.After(ReadTimeout), created when select is entered, fires
TimerFires ==
    /\ cmd.pc = "parked"
    /\ \A i \in 1..Len(cmd.events) : cmd.events[i] # "timeout"
    /\ cmd' = Event(cmd, "timeout")
    /\ UNCHANGED <<graphVars, ret, pipeVarsButCmd>>

\* RunCommand returns through the case c of its select statement; the deferred
\* session.Close() runs
Returned(c, case) ==
    LET r == RunCommandReturn(case, IF Len(c.chan) > 0 THEN c.chan[1] ELSE c.val)
    IN [c EXCEPT !.pc = "returned", !.out = case, !.err = r.err,
                 !.signalled = r.signalled, !.closed = TRUE,
                 !.ready = {c.events[i] : i \in 1..Len(c.events)},
                 !.chan = IF case = "result" THEN <<>> ELSE @]

\* the caller enters select: a case that can proceed is taken, any of them if there are
\* several; if none can, the caller parks
SelectPoll ==
    /\ cmd.pc = "started"
    /\ IF cmd.events = <<>>
       THEN cmd' = [cmd EXCEPT !.pc = "parked"]
       ELSE \E i \in 1..Len(cmd.events) : cmd' = Returned(cmd, cmd.events[i])
    /\ UNCHANGED <<graphVars, ret, pipeVarsButCmd>>

\* the parked caller resumes with the case that woke it
SelectWake ==
    /\ cmd.pc = "parked"
    /\ cmd.woken # "none"
    /\ cmd' = Returned(cmd, cmd.woken)
    /\ UNCHANGED <<graphVars, ret, pipeVarsButCmd>>

\* one iteration of the loop of Executor.Execute, the resource call returning what the
\* package manager makes of the outcome of RunCommand
ExecuteActionCmd ==
    /\ pc = "executing"
    /\ IF NeedsCommand THEN cmd.pc = "returned" /\ ~cmd.reported
                       ELSE cmd.pc = "idle" \/ cmd.reported
    /\ LET a == plan.Actions[idx]
           callErr == IF ~NeedsCommand THEN NoErr
                      ELSE IF a.Type = ActionDelete THEN Destroy(cmd.err)
                      ELSE Apply(cmd.err, NoErr)
       IN \E writeOk \in BOOLEAN :
            LET x == executeAction(a, nodes, state, stateFile, callErr, writeOk, clock)
                l == ExecuteLoop(result, a, x, idx, Len(plan.Actions), clock)
            IN /\ state' = x.state
               /\ stateFile' = x.stateFile
               /\ calls' = calls \o x.calls
               /\ touched' = touched \o x.touched
               /\ result' = l.result
               /\ execErr' = l.execErr
               /\ pc' = l.pc
               /\ idx' = l.idx
    /\ cmd' = IF NeedsCommand THEN [cmd EXCEPT !.reported = TRUE, !.action = idx] ELSE cmd
    /\ clock' = clock + 2
    /\ UNCHANGED <<auxVars, graphVars, ret, next, cancelAt, plan, planErr, state0>>

----------------------------------------------------------------------------
(* AptManager.Install / Remove / DoesExist over a list of packages *)

\* what RunCommand can return for the command of one package
RunCommandErrors ==
    { NoErr,
      <<"failed to run command", "Process exited with status 1">>,
      <<"command timed out after %s", "1m0s">> }

\* a caller invokes Install, Remove or DoesExist with n packages
CallBatch ==
    /\ batch.op = "none"
    /\ \E op \in {"Install", "Remove", "DoesExist"}, n \in 0..MaxPkgs :
         batch' = [NoBatch EXCEPT !.op = op, !.n = n, !.i = 1]
    /\ UNCHANGED <<graphVars, ret, state, stateFile, plan, planErr, result, execErr, pc,
                   idx, calls, touched, state0, next, cancelAt, cmd, probe, shared,
                   remote, clock>>

\* one iteration of the loop over the packages: the command is run and its outcome counted
BatchItem ==
    /\ batch.op # "none"
    /\ ~batch.returned
    /\ batch.i <= batch.n
    /\ \E e \in RunCommandErrors :
         batch' = [batch EXCEPT !.i = @ + 1,
                                !.results = Append(@, e),
                                !.failureCount = IF e # NoErr THEN @ + 1 ELSE @,
                                !.successCount = IF e = NoErr THEN @ + 1 ELSE @]
    /\ UNCHANGED <<graphVars, ret, state, stateFile, plan, planErr, result, execErr, pc,
                   idx, calls, touched, state0, next, cancelAt, cmd, probe, shared,
                   remote, clock>>

\* the loop is over: the call returns
BatchReturn ==
    /\ batch.op # "none"
    /\ ~batch.returned
    /\ batch.i > batch.n
    /\ batch' = [batch EXCEPT
                   !.returned = TRUE,
                   !.exists = batch.op = "DoesExist" /\ DoesExist(batch.results).exists,
                   !.err = IF batch.op = "DoesExist" THEN DoesExist(batch.results).err
                           ELSE IF batch.op = "Install" THEN Install(batch.results)
                           ELSE Remove(batch.results)]
    /\ UNCHANGED <<graphVars, ret, state, stateFile, plan, planErr, result, execErr, pc,
                   idx, calls, touched, state0, next, cancelAt, cmd, probe, shared,
                   remote, clock>>

NextBatch == CallBatch \/ BatchItem \/ BatchReturn

\* calls of the package manager, one at a time
SpecBatch == InitBuild /\ [][NextBatch]_vars

----------------------------------------------------------------------------
(* The ping command: one goroutine per selected host, joined by a WaitGroup *)

\* the ping command starts: the hosts file holds m hosts, the filters select some of them;
\* with no host the command returns before the loop
PingStart ==
    /\ probe.pc = "idle"
    /\ \E m \in 1..PingHosts : \E sel \in SUBSET (1..m) :
         probe' = [NoProbe EXCEPT !.pc = "loop", !.m = m, !.selected = sel, !.i = 1,
                                  !.task = [h \in 1..m |-> NoTask],
                                  !.pinged = [h \in 1..m |-> 0]]
    /\ UNCHANGED <<graphVars, ret, state, stateFile, plan, planErr, result, execErr, pc,
                   idx, calls, touched, state0, next, cancelAt, cmd, batch, shared,
                   remote, clock>>

\* one iteration of the loop over the hosts: a host the filters reject is skipped, for
\* the others wg.Add(1) and the goroutine is started
PingSpawn ==
    /\ probe.pc = "loop"
    /\ probe.i <= probe.m
    /\ probe' = [probe EXCEPT
                   !.i = @ + 1,
                   !.wg = IF probe.i \in probe.selected THEN @ + 1 ELSE @,
                   !.task[probe.i].pc = IF probe.i \in probe.selected THEN "started" ELSE @]
    /\ UNCHANGED <<graphVars, ret, state, stateFile, plan, planErr, result, execErr, pc,
                   idx, calls, touched, state0, next, cancelAt, cmd, batch, shared,
                   remote, clock>>

\* the goroutine of host h calls ssh.PingHost, which succeeds or fails
TaskPing ==
    /\ \E h \in 1..probe.m :
         /\ probe.task[h].pc = "started"
         /\ \E ok \in BOOLEAN :
              probe' = [probe EXCEPT !.task[h].pc = "pinged", !.task[h].ok = ok,
                                     !.pinged[h] = @ + 1]
    /\ UNCHANGED <<graphVars, ret, state, stateFile, plan, planErr, result, execErr, pc,
                   idx, calls, touched, state0, next, cancelAt, cmd, batch, shared,
                   remote, clock>>

\* successCount++ / failureCount++ in the goroutine of host h, first half: the counter
\* shared by all goroutines is read, without synchronisation
TaskRead ==
    /\ \E h \in 1..probe.m :
         /\ probe.task[h].pc = "pinged"
         /\ probe' = [probe EXCEPT
                        !.task[h].pc = "read",
                        !.task[h].tmp = IF probe.task[h].ok THEN probe.successCount
                                        ELSE probe.failureCount]
    /\ UNCHANGED <<graphVars, ret, state, stateFile, plan, planErr, result, execErr, pc,
                   idx, calls, touched, state0, next, cancelAt, cmd, batch, shared,
                   remote, clock>>

\* second half: the incremented value is written back; the deferred wg.Done() runs
TaskWrite ==
    /\ \E h \in 1..probe.m :
         /\ probe.task[h].pc = "read"
         /\ probe' = [probe EXCEPT
                        !.task[h].pc = "done",
                        !.successCount = IF probe.task[h].ok THEN probe.task[h].tmp + 1
                                         ELSE @,
                        !.failureCount = IF probe.task[h].ok THEN @
                                         ELSE probe.task[h].tmp + 1,
                        !.wg = @ - 1]
    /\ UNCHANGED <<graphVars, ret, state, stateFile, plan, planErr, result, execErr, pc,
                   idx, calls, touched, state0, next, cancelAt, cmd, batch, shared,
                   remote, clock>>

\* wg.Wait() returns and the counts are printed
PingWait ==
    /\ probe.pc = "loop"
    /\ probe.i > probe.m
    /\ probe.wg = 0
    /\ probe' = [probe EXCEPT !.pc = "reported",
                              !.Success = probe.successCount,
                              !.Failure = probe.failureCount]
    /\ UNCHANGED <<graphVars, ret, state, stateFile, plan, planErr, result, execErr, pc,
                   idx, calls, touched, state0, next, cancelAt, cmd, batch, shared,
                   remote, clock>>

NextPing == PingStart \/ PingSpawn \/ TaskPing \/ TaskRead \/ TaskWrite \/ PingWait

\* the ping command
SpecPing == InitBuild /\ [][NextPing]_vars

----------------------------------------------------------------------------
(* Apply / Destroy against the host the executor binds *)

\* the host names of the hosts file
HostPool == {"h1", "h2"}

\* Executor.createResourceContext for a package resource: the hosts the loop over the map
\* e.hosts can yield first; with no host ctx.Host stays nil
createResourceContext(H) == H

\* what the check command `dpkg -l | grep -w <name>` yields on a host with the packages
\* pkgs: grep exits with status 0 on a match and with status 1 without one
CheckOutcome(pkgs, name, up) ==
    IF ~up THEN "error" ELSE IF name \in pkgs THEN "found" ELSE "absent"

\* what RunCommand returns for the check command: session.CombinedOutput returns an error
\* for every exit status but 0
CheckError(outcome) ==
    IF outcome = "found" THEN NoErr
    ELSE IF outcome = "absent" THEN <<"failed to run command", "Process exited with status 1">>
    ELSE <<"command timed out after %s", "1m0s">>

\* what RunCommand returns for an install or remove command
CommandError(ok) ==
    IF ok THEN NoErr ELSE <<"failed to run command", "Process exited with status 100">>

\* PackageResource.Apply on a host with the packages pkgs: the error, the commands run, the
\* packages of the host afterwards
ApplyOn(pkgs, name, connected, up, ok) ==
    IF ~connected
    THEN [err |-> <<"failed to create apt manager", "failed to create SSH client", "EOF">>,
          check |-> "none", commands |-> <<>>, pkgs |-> pkgs]
    ELSE LET outcome  == CheckOutcome(pkgs, name, up)
             c        == DoesExist(<<CheckError(outcome)>>)
             installs == c.err = NoErr /\ ~c.exists
         IN [err |-> Apply(CheckError(outcome), CommandError(ok)),
             check |-> outcome,
             commands |-> IF installs THEN <<"check", "install">> ELSE <<"check">>,
             pkgs |-> IF installs /\ ok THEN pkgs \cup {name} ELSE pkgs]

\* PackageResource.Destroy on a host with the packages pkgs
DestroyOn(pkgs, name, connected, ok) ==
    IF ~connected
    THEN [err |-> <<"failed to create apt manager", "failed to create SSH client", "EOF">>,
          check |-> "none", commands |-> <<>>, pkgs |-> pkgs]
    ELSE [err |-> Destroy(CommandError(ok)),
          check |-> "none",
          commands |-> <<"remove">>,
          pkgs |-> IF ok THEN pkgs \ {name} ELSE pkgs]

\* executor.SetHosts(hosts) with the hosts of the hosts file, which may hold none; each
\* host has some of the declared packages installed
SetHosts ==
    /\ pc \in {"idle", "planned"}
    /\ ~remote.set
    /\ \E H \in SUBSET HostPool :
         \E inst \in [H -> SUBSET {nodes[id].Config.name : id \in DOMAIN nodes}] :
            remote' = [set |-> TRUE, hosts |-> H, installed |-> inst]
    /\ UNCHANGED <<graphVars, ret, state, stateFile, plan, planErr, result, execErr, pc,
                   idx, calls, touched, state0, next, cancelAt, cmd, batch, probe, shared,
                   clock>>

\* one iteration of the loop of Executor.Execute with the resource call made on the bound
\* host; the commands call SetHosts before Execute.  Without a host NewAptManager reads ctx.Host.Hostname of a nil Host: the process
\* panics, nothing is recorded.
ExecuteActionHost ==
    /\ pc = "executing"
    /\ remote.set
    /\ LET a == plan.Actions[idx]
           called == a.Type # ActionNoOp /\ GetResource(nodes, a.ResourceID)
       IN IF called /\ createResourceContext(remote.hosts) = {}
          THEN /\ pc' = "crashed"
               /\ UNCHANGED <<state, stateFile, calls, touched, result, execErr, idx, remote>>
          ELSE \E h \in (IF called THEN createResourceContext(remote.hosts) ELSE {"none"}),
                  connected \in BOOLEAN, up \in BOOLEAN, ok \in BOOLEAN,
                  writeOk \in BOOLEAN :
                 LET name == nodes[a.ResourceID].Config.name
                     o == IF ~called
                          THEN [err |-> NoErr, check |-> "none", commands |-> <<>>,
                                pkgs |-> {}]
                          ELSE IF a.Type = ActionDelete
                          THEN DestroyOn(remote.installed[h], name, connected, ok)
                          ELSE ApplyOn(remote.installed[h], name, connected, up, ok)
                     x == executeAction(a, nodes, state, stateFile, o.err, writeOk, clock)
                     l == ExecuteLoop(result, a, x, idx, Len(plan.Actions), clock)
                 IN /\ state' = x.state
                    /\ stateFile' = x.stateFile
                    /\ calls' = calls \o
                          [i \in 1..Len(x.calls) |->
                              [ResourceID |-> x.calls[i].ResourceID, op |-> x.calls[i].op,
                               host |-> h, check |-> o.check, commands |-> o.commands,
                               err |-> o.err]]
                    /\ touched' = touched \o x.touched
                    /\ result' = l.result
                    /\ execErr' = l.execErr
                    /\ pc' = l.pc
                    /\ idx' = l.idx
                    /\ remote' = IF called THEN [remote EXCEPT !.installed[h] = o.pkgs]
                                 ELSE remote
    /\ clock' = clock + 2
    /\ UNCHANGED <<graphVars, ret, next, cancelAt, plan, planErr, state0, cmd, batch, probe,
                   shared>>

\* resources without dependencies, for the runs against hosts
InitHosts ==
    \E m \in 0..HostRes : \E ly \in PipeLayerings(Ids(m)) :
        \E e \in EdgeLists(Ids(m), Ids(m), 0) : Loaded(Graph(m, ly, e))

NextHosts == Plan \/ CleanPlan \/ SetHosts \/ ExecuteStart \/ ExecuteActionHost

\* the pipeline with the hosts of the executor and the packages installed on them
SpecHosts == InitHosts /\ [][NextHosts]_vars

Next == Plan \/ CleanPlan \/ ExecuteStart \/ ExecuteAction

NextCancel == Plan \/ CleanPlan \/ ExecuteStart \/ ExecuteAction \/ Cancel

NextRuns == Plan \/ CleanPlan \/ ExecuteStart \/ ExecuteAction \/ PlanAgain

NextMutate ==
    Plan \/ HandPlan \/ GraphAddResource \/ GraphRemoveResource \/ ExecuteStart \/ ExecuteAction

Spec == Init /\ [][Next]_vars

SpecDeps == InitDeps /\ [][Next]_vars

SpecRuns == InitRuns /\ [][NextRuns]_vars

\* the runs of Spec under a context that can be cancelled
SpecCancel == Init /\ [][NextCancel]_vars

\* runs in which the graph is changed after planning, or was never validated
SpecMutate == InitMutate /\ [][NextMutate]_vars

\* the planner alone
SpecPlan == InitPlan /\ [][Plan]_vars

\* the entries a state file can hold for an id: those of FileEntries, or the entry of a
\* resource applied with an older configuration
OrphanEntries(id) ==
    FileEntries(id) \cup
    { [Status |-> StateApplied, LastApplied |-> 0,
       Checksum |-> Marshal([MkResource(id, LayerPlatform).Config EXCEPT !.version = "0.9"]),
       Metadata |-> [config |-> [MkResource(id, LayerPlatform).Config
                                    EXCEPT !.version = "0.9"]]] }

\* package resources with dependencies, and a state file that earlier runs wrote, also for
\* resources that are no longer declared; nothing is planned yet
InitOrphans ==
    /\ \E m \in 0..OrphRes :
         \E e \in EdgeLists(Ids(m), Ids(OrphRes + 1), OrphEdges) :
            LET g == Graph(m, [id \in Ids(m) |-> LayerPlatform], e)
            IN nodes = g.nodes /\ edges = g.edges
    /\ ret = NoRet
    /\ \E ids \in SUBSET Ids(OrphRes + 1) :
         /\ state \in [ids -> UNION {OrphanEntries(id) : id \in ids}]
         /\ \A id \in ids : state[id] \in OrphanEntries(id)
    /\ stateFile = [exists |-> state # <<>>, data |-> state]
    /\ plan = NoPlan
    /\ planErr = NoErr
    /\ result = NoResult
    /\ execErr = NoErr
    /\ pc = "idle"
    /\ idx = 0
    /\ calls = <<>>
    /\ touched = <<>>
    /\ state0 = state
    /\ next = NoNext
    /\ cancelAt = 0
    /\ clock = 1
    /\ cmd = NoCmd
    /\ AuxIdle

\* Plan() over a store with entries of undeclared resources
SpecOrphans == InitOrphans /\ [][Plan]_vars

\* resources without dependencies, for the runs that follow the remote commands
InitCommand ==
    \E m \in 0..CmdRes : \E ly \in PipeLayerings(Ids(m)) :
        \E e \in EdgeLists(Ids(m), Ids(m), 0) : Loaded(Graph(m, ly, e))

NextCommand ==
    \/ Plan \/ CleanPlan \/ ExecuteStart \/ ExecuteActionCmd
    \/ RunStart \/ DirectRunCommand
    \/ CommandCompletes \/ GoSend \/ CtxCancel \/ TimerFires \/ SelectPoll \/ SelectWake

\* the pipeline with every remote command of an action carried out step by step
SpecCommand == InitCommand /\ [][NextCommand]_vars

----------------------------------------------------------------------------
(* Graph properties, stated independently of the algorithms *)

\* the (from, target) pairs of the Required edges
ReqPairs(E) == {<<p[1], E[p[1]][p[2]].Target>> : p \in RequiredEdges(E)}

Succ(R, S) == {q[2] : q \in {r \in R : r[1] \in S}}

RECURSIVE Closure(_, _)
Closure(R, S) ==
    LET S2 == S \cup Succ(R, S) IN IF S2 = S THEN S ELSE Closure(R, S2)

\* some resource reaches itself along Required edges
HasRequiredCycle(E) == \E u \in DOMAIN E : u \in Closure(ReqPairs(E), Succ(ReqPairs(E), {u}))

\* a Required edge whose target is not a node
MissingTargets(N, E) == {r \in ReqPairs(E) : r[2] \notin DOMAIN N}

\* the Required edges between nodes that point to a higher layer
LayerViolations(N, E) ==
    {r \in ReqPairs(E) : r[2] \in DOMAIN N /\ N[r[1]].Layer < N[r[2]].Layer}

\* s lists every element of S exactly once and nothing else
IsPermutation(s, S) ==
    /\ Len(s) = Cardinality(S)
    /\ {s[i] : i \in 1..Len(s)} = S

Sorted == pc = "graph" /\ ret.op = "TopologicalSort"
Validated == pc = "graph" /\ ret.op = "ValidateDependencies"

\* C5: TopologicalSort on a graph whose Required edges form no cycle, whatever the targets
\* of the edges are, returns no error and a permutation of the node ids.
C5_SortAcyclicIsPermutation ==
    (Sorted /\ ~HasRequiredCycle(edges))
        => (ret.err = NoErr /\ IsPermutation(ret.result, DOMAIN nodes))

\* C6: TopologicalSort on a graph with a cycle of Required edges (a self-dependency
\* included) returns the circular-dependency error and no ordering.
C6_SortCycleFails ==
    (Sorted /\ HasRequiredCycle(edges)) => (ret.err = CycleError /\ ret.result = <<>>)

\* C7: in an ordering returned by TopologicalSort, for every Required edge from A to B
\* between two graph nodes, A comes before B.
C7_DependentsFirst ==
    (Sorted /\ ret.err = NoErr)
        => \A r \in ReqPairs(edges) :
              (r[1] \in DOMAIN nodes /\ r[2] \in DOMAIN nodes)
                  => /\ InSeq(ret.result, r[1])
                     /\ InSeq(ret.result, r[2])
                     /\ IndexOf(ret.result, r[1]) < IndexOf(ret.result, r[2])

\* C9: a Required edge to a higher layer makes ValidateDependencies return an error; if
\* that edge is the only violation of the graph the error is the layer error naming its
\* source; ValidateLayerDependency(from, to) fails exactly when from < to.
C9_LayerViolationRejected ==
    /\ (Validated /\ LayerViolations(nodes, edges) # {}) => ret.err # NoErr
    /\ \A r \in LayerViolations(nodes, edges) :
          ( /\ Validated
            /\ LayerViolations(nodes, edges) = {r}
            /\ MissingTargets(nodes, edges) = {}
            /\ ~HasRequiredCycle(edges) )
              => ret.err = <<"resource %s", r[1],
                             "resource in layer %s cannot depend on layer %s",
                             LayerString(nodes[r[1]].Layer), LayerString(nodes[r[2]].Layer)>>
    /\ \A from \in Layers, to \in Layers :
          (ValidateLayerDependency(from, to) # NoErr) <=> (from < to)
    /\ \A id \in DOMAIN nodes : \A k \in 1..Len(edges[id]) :
          (edges[id][k].Required /\ edges[id][k].Target \in DOMAIN nodes)
              => ((ValidateLayerDependency(nodes[id].Layer, nodes[edges[id][k].Target].Layer) # NoErr)
                    <=> <<id, edges[id][k].Target>> \in LayerViolations(nodes, edges))

\* C9 witness: ValidateDependencies has returned the layer error for the single violation
C9_Witness ==
    /\ Validated
    /\ Cardinality(LayerViolations(nodes, edges)) = 1
    /\ MissingTargets(nodes, edges) = {}
    /\ ~HasRequiredCycle(edges)
    /\ Len(ret.err) = 5
    /\ ret.err[3] = "resource in layer %s cannot depend on layer %s"

\* the graph without its non-required edges
RequiredOnly(E) == [id \in DOMAIN E |-> SelectSeq(E[id], LAMBDA d : d.Required)]

\* what TopologicalSort can return on a graph, over all iteration orders
SortOutcomes(N, E) == {TopologicalSort(N, E, iter) : iter \in SortIters(N, E)}

\* C11: the non-required edges of a graph constrain nothing: TopologicalSort can return
\* exactly what it can return on the graph without them (the same error, the same set of
\* orderings), ValidateDependencies likewise, and every call made returned such a value.
C11_NonRequiredIgnored ==
    /\ SortOutcomes(nodes, edges) = SortOutcomes(nodes, RequiredOnly(edges))
    /\ ValidateDependenciesOutcomes(nodes, edges)
          = ValidateDependenciesOutcomes(nodes, RequiredOnly(edges))
    /\ Sorted => [result |-> ret.result, err |-> ret.err]
                    \in SortOutcomes(nodes, RequiredOnly(edges))
    /\ Validated => ret.err \in ValidateDependenciesOutcomes(nodes, RequiredOnly(edges))

\* C11 witness: ValidateDependencies succeeded on a graph whose non-required edges form a
\* cycle through a higher layer
C11_Witness ==
    /\ Validated
    /\ ret.err = NoErr
    /\ \E a \in DOMAIN nodes, b \in DOMAIN nodes :
          /\ nodes[a].Layer < nodes[b].Layer
          /\ \E i \in 1..Len(edges[a]) : edges[a][i].Target = b /\ ~edges[a][i].Required
          /\ \E i \in 1..Len(edges[b]) : edges[b][i].Target = a /\ ~edges[b][i].Required

\* C10: a Required dependency of A on a target that is not a node, in a graph that is
\* otherwise acyclic and layer-valid, makes ValidateDependencies fail with the error
\* "resource A depends on non-existent resource <target>".
C10_MissingTargetReported ==
    ( /\ Validated
      /\ MissingTargets(nodes, edges) # {}
      /\ ~HasRequiredCycle(edges)
      /\ LayerViolations(nodes, edges) = {} )
        => \E r \in MissingTargets(nodes, edges) :
              ret.err = <<"resource %s depends on non-existent resource %s", r[1], r[2]>>

----------------------------------------------------------------------------
(* Executor properties *)

NumActions == Len(plan.Actions)

\* the position of the action for resource id in the plan, 0 if there is none
PlanPos(id) ==
    IF \E i \in 1..NumActions : plan.Actions[i].ResourceID = id
    THEN CHOOSE i \in 1..NumActions : plan.Actions[i].ResourceID = id
    ELSE 0

\* the Apply / Destroy calls that running the first k actions once each makes
RECURSIVE CallsOf(_, _)
CallsOf(acts, k) ==
    IF k = 0 THEN <<>>
    ELSE CallsOf(acts, k - 1) \o
         (IF acts[k].Type = ActionNoOp THEN <<>>
          ELSE <<[ResourceID |-> acts[k].ResourceID,
                  op |-> IF acts[k].Type = ActionDelete THEN "Destroy" ELSE "Apply"]>>)

\* some Apply or Destroy call of the run has returned an error
SomeCallFailed == \E i \in 1..Len(touched) : touched[i].op = "MarkFailed"

\* Execute has returned because the Apply or Destroy call of action idx returned an error
CallFailed ==
    /\ pc = "done"
    /\ touched # <<>>
    /\ touched[Len(touched)].op = "MarkFailed"

\* the entry of id is what it was when Execute was entered
EntryUntouched(id) ==
    /\ id \in DOMAIN state <=> id \in DOMAIN state0
    /\ id \in DOMAIN state => state[id] = state0[id]

\* C1: once an Apply or Destroy call has returned an error, Execute has returned with
\* Success=false, every action up to the failed one was called exactly once (no retry),
\* no call was made for a later action and the entries of the later actions' resources
\* are as they were when Execute was entered.
C1_FailFast ==
    /\ SomeCallFailed => CallFailed
    /\ CallFailed =>
         /\ result.Success = FALSE
         /\ execErr # NoErr
         /\ calls = CallsOf(plan.Actions, idx)
         /\ Cardinality({i \in 1..Len(touched) : touched[i].op = "MarkFailed"}) = 1
         /\ \A j \in (idx + 1)..NumActions : EntryUntouched(plan.Actions[j].ResourceID)

\* C1 witness: a call failed while an action that needs a call was still to come
C1_Witness ==
    /\ CallFailed
    /\ idx < NumActions
    /\ \E j \in (idx + 1)..NumActions : plan.Actions[j].Type # ActionNoOp

\* C2: when the call of the k-th action fails after k-1 successes, the result holds k
\* outcomes: k-1 without error and one with the error and failure time of the failed action.
C2_FailureOutcomeRecorded ==
    CallFailed =>
        /\ Len(result.Actions) = idx
        /\ GetSuccessCount(result) = idx - 1
        /\ GetFailureCount(result) = 1
        /\ result.Actions[idx].Error # NoErr
        /\ result.Actions[idx].FailedAt # 0

C4_NoRollback ==
    CallFailed =>
        /\ \A j \in 1..(idx - 1) :
              LET a == plan.Actions[j]
                  id == a.ResourceID
              IN IF a.Type = ActionNoOp THEN EntryUntouched(id)
                 ELSE /\ id \in DOMAIN state
                      /\ state[id] = [Status |-> StateApplied,
                                      LastApplied |-> result.Actions[j].CompletedAt,
                                      Checksum |-> Marshal(nodes[id].Config),
                                      Metadata |-> [config |-> nodes[id].Config]]
                      /\ id \in DOMAIN stateFile.data
                      /\ stateFile.data[id] = state[id]
        /\ \A id \in (DOMAIN state \cup DOMAIN state0) :
              (PlanPos(id) = 0 \/ PlanPos(id) > idx) => EntryUntouched(id)
        /\ \A i \in 1..Len(calls) :
              calls[i].op = "Destroy" => plan.Actions[PlanPos(calls[i].ResourceID)].Type = ActionDelete

\* C4 witness: a call failed after an earlier call of the run had succeeded
C4_Witness ==
    /\ CallFailed
    /\ \E i \in 1..Len(touched) : touched[i].op = "MarkApplied"
    /\ \E id \in DOMAIN state0 : PlanPos(id) > idx

\* the i-th action of the plan has been started
Started(i) == i >= 1 /\ (i < idx \/ (pc = "done" /\ i <= idx))

\* the i-th action of the plan has completed without error
Succeeded(i) == i >= 1 /\ i <= Len(result.Actions)

\* C17: once the context is cancelled while action k is in flight, no later action is
\* started, and Execute returns at action k without success and with an error.
C17_CancelHalts ==
    cancelAt > 0 =>
        /\ \A i \in (cancelAt + 1)..NumActions : ~Started(i)
        /\ pc = "done" =>
              /\ idx = cancelAt
              /\ result.Success = FALSE
              /\ execErr # NoErr

\* the last call on the state store, if any
LastOp == IF touched = <<>> THEN [op |-> "none", saved |-> FALSE] ELSE touched[Len(touched)]

\* C21: after a MarkApplied, a MarkFailed or a Cleanup that removed an entry, if the call
\* returned without error, the state file exists and holds the whole in-memory mapping;
\* after MarkApplied(r) the entry of r has status Applied, the serialized configuration
\* of r as checksum and the configuration of r as metadata.config.
C21_FileMirrorsStore ==
    /\ ( /\ pc = "entries"
         /\ LastOp.op \in {"MarkApplied", "MarkFailed", "Cleanup"}
         /\ LastOp.op = "Cleanup" => LastOp.removed # {}
         /\ ret.err = NoErr )
           => /\ stateFile.exists
              /\ DOMAIN stateFile.data = DOMAIN state
              /\ \A id \in DOMAIN state : stateFile.data[id] = state[id]
    /\ (pc = "entries" /\ LastOp.op = "MarkApplied")
           => LET id == LastOp.ResourceID
              IN /\ id \in DOMAIN state
                 /\ state[id].Status = StateApplied
                 /\ state[id].Checksum = Marshal(nodes[id].Config)
                 /\ state[id].Metadata = [config |-> nodes[id].Config]

\* C21 witness: a Cleanup has removed an entry and written a file that still holds the
\* entry an earlier MarkApplied made
C21_Witness ==
    /\ pc = "entries"
    /\ Len(touched) = 2
    /\ touched[1].op = "MarkApplied"
    /\ touched[1].saved
    /\ LastOp.op = "Cleanup"
    /\ LastOp.removed # {}
    /\ LastOp.saved
    /\ state # <<>>

\* some write of the state file failed during the run
SomeWriteFailed == \E k \in 1..Len(touched) : ~touched[k].saved

\* C22: when a write of the state file fails during Execute, whether in MarkApplied or in
\* MarkFailed, Execute returns without success and the error it returns and the error
\* of its result report the failed write.
C22_WriteFailureReported ==
    (pc = "done" /\ SomeWriteFailed)
        => /\ result.Success = FALSE
           /\ InSeq(execErr, SaveError[1])
           /\ InSeq(result.Error, SaveError[1])

\* C23: the store maps each ResourceID to one entry; a step of Plan or Execute removes no
\* entry; a step that calls MarkApplied(r) or MarkFailed(r) leaves every entry but that of
\* r as it was, and a step without such a call leaves the whole store as it was.
C23_OnlyOwnEntryChanges ==
    [][ /\ DOMAIN state \subseteq DOMAIN state'
        /\ DOMAIN state' \subseteq DOMAIN nodes \cup DOMAIN state
        /\ touched' = touched => state' = state
        /\ touched' # touched =>
              /\ Len(touched') = Len(touched) + 1
              /\ \A id \in DOMAIN state' \ {touched'[Len(touched')].ResourceID} :
                    id \in DOMAIN state /\ state'[id] = state[id] ]_vars

\* C23 witness: Execute has called MarkApplied for one resource and MarkFailed for
\* another while a third one had an entry
C23_Witness ==
    /\ pc = "done"
    /\ Len(touched) = 2
    /\ touched[1].op = "MarkApplied"
    /\ touched[2].op = "MarkFailed"
    /\ \E id \in DOMAIN state0 : id # touched[1].ResourceID /\ id # touched[2].ResourceID

\* this step is a call of Cleanup
CleanupStep ==
    /\ pc = "entries"
    /\ Len(touched') = Len(touched) + 1
    /\ touched'[Len(touched')].op = "Cleanup"

\* C24: a call of Cleanup removes exactly the entries whose id is not a node of the
\* graph and leaves the other entries as they were, so that every id of the store is then
\* a node; the state file is left as it was when no entry was removed, and a write puts
\* the remaining entries in it; a Cleanup that follows a Cleanup directly changes neither
\* the store nor the file.
C24_CleanupRemovesUndeclared ==
    [][ CleanupStep =>
          /\ DOMAIN state' = DOMAIN state \cap DOMAIN nodes
          /\ \A id \in DOMAIN state' : state'[id] = state[id]
          /\ DOMAIN state' \subseteq DOMAIN nodes'
          /\ DOMAIN state \subseteq DOMAIN nodes => stateFile' = stateFile
          /\ stateFile' # stateFile =>
                /\ DOMAIN state' # DOMAIN state
                /\ stateFile' = [exists |-> TRUE, data |-> state']
          /\ LastOp.op = "Cleanup" => (state' = state /\ stateFile' = stateFile) ]_vars

\* C24 witness: a Cleanup has removed an entry and kept another, and a second Cleanup
\* has followed it
C24_Witness ==
    /\ pc = "entries"
    /\ Len(touched) = 2
    /\ touched[1].op = "Cleanup"
    /\ touched[1].removed # {}
    /\ touched[1].saved
    /\ touched[2].op = "Cleanup"
    /\ state # <<>>

\* Execute has been called
Executed == pc \in {"rejected", "executing", "done"}

\* every action of the plan was run, in plan order, no Apply or Destroy call returned an
\* error and every outcome was written to the state file
AllCompleted ==
    /\ calls = CallsOf(plan.Actions, NumActions)
    /\ Len(touched) = Len(calls)
    /\ \A k \in 1..Len(touched) :
          /\ touched[k].op = "MarkApplied"
          /\ touched[k].saved
          /\ touched[k].ResourceID = calls[k].ResourceID

\* C20: when Execute has returned, Success is true exactly when every action of the plan
\* completed without error; the result then holds one outcome per plan action, in plan
\* order and without error, and every action started after the outcome of the one before
\* it was recorded in the state store; on an empty graph Plan() and the clean command give
\* zero actions and Execute succeeds with success count 0 and failure count 0.
C20_SuccessIffAllCompleted ==
    /\ pc = "done" =>
          /\ result.Success <=> AllCompleted
          /\ result.Success <=> execErr = NoErr
          /\ result.Success =>
                /\ Len(result.Actions) = NumActions
                /\ GetSuccessCount(result) = NumActions
                /\ GetFailureCount(result) = 0
                /\ \A i \in 1..NumActions :
                      /\ result.Actions[i].Action = plan.Actions[i]
                      /\ result.Actions[i].Error = NoErr
                      /\ result.Actions[i].StartedAt < result.Actions[i].CompletedAt
                      /\ i > 1 =>
                            /\ result.Actions[i - 1].CompletedAt < result.Actions[i].StartedAt
                            /\ plan.Actions[i - 1].Type # ActionNoOp =>
                                  /\ plan.Actions[i - 1].ResourceID \in DOMAIN state
                                  /\ state[plan.Actions[i - 1].ResourceID].LastApplied
                                        < result.Actions[i].StartedAt
    /\ (DOMAIN nodes = {} /\ pc # "idle") =>
          /\ planErr = NoErr
          /\ NumActions = 0
          /\ Executed =>
                /\ pc = "done"
                /\ result.Success
                /\ execErr = NoErr
                /\ GetSuccessCount(result) = 0
                /\ GetFailureCount(result) = 0

\* C20 witness: Execute has returned success for a plan of three actions of which at
\* least two made a call
C20_Witness ==
    /\ pc = "done"
    /\ result.Success
    /\ NumActions = 3
    /\ Len(touched) >= 2

\* the number of calls of op ("Apply" or "Destroy") made on resource id
CountCalls(id, op) ==
    Cardinality({k \in 1..Len(calls) : calls[k].ResourceID = id /\ calls[k].op = op})

\* the entry of id in the state file is what it was when Execute was entered
FileEntryUntouched(id) ==
    /\ id \in DOMAIN stateFile.data <=> id \in DOMAIN state0
    /\ id \in DOMAIN stateFile.data => stateFile.data[id] = state0[id]

\* C19: an action that Execute has run made exactly one Apply call and no Destroy call if
\* it is a Create or an Update, exactly one Destroy call and no Apply call if it is a
\* Delete, and no call at all if it is a NoOp; a NoOp is recorded as completed without
\* error and leaves the entry of its resource as it was, in memory and in the state file;
\* a run of NoOp actions only leaves the whole state file as it was.
C19_DispatchByType ==
    /\ \A i \in 1..NumActions :
          Started(i) =>
            LET a  == plan.Actions[i]
                id == a.ResourceID
            IN /\ a.Type \in {ActionCreate, ActionUpdate}
                    => (CountCalls(id, "Apply") = 1 /\ CountCalls(id, "Destroy") = 0)
               /\ a.Type = ActionDelete
                    => (CountCalls(id, "Destroy") = 1 /\ CountCalls(id, "Apply") = 0)
               /\ a.Type = ActionNoOp
                    => /\ CountCalls(id, "Apply") = 0
                       /\ CountCalls(id, "Destroy") = 0
                       /\ i <= Len(result.Actions)
                       /\ result.Actions[i].Action = a
                       /\ result.Actions[i].Error = NoErr
                       /\ result.Actions[i].CompletedAt > 0
                       /\ result.Actions[i].FailedAt = 0
                       /\ EntryUntouched(id)
                       /\ FileEntryUntouched(id)
    /\ (Executed /\ \A i \in 1..NumActions : Started(i) => plan.Actions[i].Type = ActionNoOp)
          => /\ state = state0
             /\ stateFile = [exists |-> state0 # <<>>, data |-> state0]
             /\ touched = <<>>

\* C19 witness: Execute has run a Create, an Update and a NoOp and returned
C19_Witness ==
    /\ pc = "done"
    /\ result.Success
    /\ \A t \in {ActionCreate, ActionUpdate, ActionNoOp} :
          \E i \in 1..NumActions : plan.Actions[i].Type = t
    /\ Len(calls) = 2

\* C18: when the graph of the plan has a cycle of Required edges or a layer violation at
\* the time Execute is called, Execute returns a plan-validation error and no result, no
\* Apply or Destroy call has been made and no state store call either, and the state store
\* and the state file are what they were.
C18_ExecuteRevalidates ==
    (Executed /\ (HasRequiredCycle(edges) \/ LayerViolations(nodes, edges) # {}))
        => /\ pc = "rejected"
           /\ Len(execErr) > 2
           /\ execErr[1] = "plan validation failed"
           /\ execErr[2] = "plan validation failed"
           /\ result = NoResult
           /\ calls = <<>>
           /\ touched = <<>>
           /\ state = state0
           /\ stateFile = [exists |-> state0 # <<>>, data |-> state0]

\* C18 witness: a plan was made by Plan(), a resource was then re-added so that the graph
\* has a cycle, and Execute has rejected the plan with a state store that has entries
C18_Witness ==
    /\ pc = "rejected"
    /\ ret.op = "AddResource"
    /\ HasRequiredCycle(edges)
    /\ \E i \in 1..Len(plan.Actions) : plan.Actions[i].Type # ActionDelete
    /\ state0 # <<>>

\* C25: every entry of the store has status Applied or Failed; an entry that Execute wrote
\* belongs to an action it ran with one Apply or Destroy call; it is Applied only if that
\* call returned no error, and Failed only if that call returned the error the entry
\* holds, which ended the run.
C25_OnlyAppliedOrFailed ==
    \A id \in DOMAIN state :
        /\ state[id].Status \in {StateApplied, StateFailed}
        /\ ~EntryUntouched(id) =>
              LET i == PlanPos(id)
                  callFailedHere == pc = "done" /\ i = idx /\ Len(execErr) > 2
                                       /\ execErr[3] = "action failed"
              IN /\ i >= 1
                 /\ Started(i)
                 /\ CountCalls(id, "Apply") + CountCalls(id, "Destroy") = 1
                 /\ state[id].Status = StateApplied => ~callFailedHere
                 /\ state[id].Status = StateFailed =>
                       /\ callFailedHere
                       /\ state[id].Metadata.error \in ApplyErrors \cup DestroyErrors
                       /\ SubSeq(execErr, 4, Len(execErr)) = state[id].Metadata.error

\* C25 witness: a run of Delete actions has written an Applied entry after a successful
\* Destroy and a Failed entry after a failed one
C25_Witness ==
    /\ pc = "done"
    /\ calls # <<>>
    /\ calls[1].op = "Destroy"
    /\ \E a \in DOMAIN state, b \in DOMAIN state :
          /\ ~EntryUntouched(a) /\ state[a].Status = StateApplied
          /\ ~EntryUntouched(b) /\ state[b].Status = StateFailed

\* C26: a plan, as Plan() or a caller has made it, has actions for nodes of the graph only;
\* when Execute reaches an action whose resource is no longer a node, it returns at that
\* action without success, with the error 'resource <id> not found' under the id of the
\* action; no Apply or Destroy call is made for the id, no later action is started, and
\* the entry of the id, in memory and in the state file, is as it was.
C26_MissingResourceFails ==
    /\ (pc = "planned" /\ ret.op = "none")
          => \A i \in 1..NumActions : plan.Actions[i].ResourceID \in DOMAIN nodes
    /\ \A i \in 1..NumActions :
          (Started(i) /\ plan.Actions[i].ResourceID \notin DOMAIN nodes)
            => LET id == plan.Actions[i].ResourceID
               IN /\ pc = "done"
                  /\ idx = i
                  /\ result.Success = FALSE
                  /\ execErr = <<"execution failed at action %s", id,
                                 "resource %s not found", id>>
                  /\ result.Error = <<"resource %s not found", id>>
                  /\ CountCalls(id, "Apply") + CountCalls(id, "Destroy") = 0
                  /\ \A k \in 1..Len(touched) : touched[k].ResourceID # id
                  /\ \A j \in (i + 1)..NumActions : ~Started(j)
                  /\ EntryUntouched(id)
                  /\ FileEntryUntouched(id)

\* C26 witness: a resource with an entry was removed after planning, Execute has failed
\* at its action and an action was still to come
C26_Witness ==
    /\ pc = "done"
    /\ ret.op = "RemoveResource"
    /\ idx = 1
    /\ NumActions > 1
    /\ plan.Actions[1].ResourceID \notin DOMAIN nodes
    /\ plan.Actions[1].ResourceID \in DOMAIN state
    /\ plan.Actions[1].Type # ActionDelete

\* this step is a call of AddResource
AddStep == pc = "graph" /\ idx' = idx + 1 /\ ret'.op = "AddResource"

\* C27: AddResource(r) with an empty id or an empty type returns an 'invalid resource'
\* error and leaves nodes and edges as they were; otherwise it returns no error, r is the
\* node of its id and the dependencies r declares are the edges of that id, whatever node
\* and edges the id had before, and every other node and edge list is as it was; adding
\* the resource that the call before added leaves the graph as it is.
C27_AddResourceValidatesAndOverwrites ==
    [][ AddStep =>
          LET r    == ret'.r
              deps == ret'.deps
          IN IF r.ID = "" \/ r.Type = ""
             THEN /\ Len(ret'.err) > 2
                  /\ ret'.err[1] = "invalid resource %s"
                  /\ nodes' = nodes
                  /\ edges' = edges
             ELSE /\ ret'.err = NoErr
                  /\ DOMAIN nodes' = DOMAIN nodes \cup {r.ID}
                  /\ DOMAIN edges' = DOMAIN edges \cup {r.ID}
                  /\ nodes'[r.ID] = r
                  /\ edges'[r.ID] = deps
                  /\ \A id \in DOMAIN nodes \ {r.ID} : nodes'[id] = nodes[id]
                  /\ \A id \in DOMAIN edges \ {r.ID} : edges'[id] = edges[id]
                  /\ (ret.op = "AddResource" /\ ret.r = r /\ ret.deps = deps)
                        => (nodes' = nodes /\ edges' = edges) ]_vars

\* C27 witness: a resource was added under an id that was a node already, with another
\* dependency list than that node had
C27_Witness ==
    /\ pc = "graph"
    /\ ret.op = "AddResource"
    /\ ret.err = NoErr
    /\ ret.existed
    /\ ret.deps # <<>>
    /\ edges[ret.r.ID] = ret.deps
    /\ Cardinality(DOMAIN nodes) = 2

\* this step is a call of RemoveResource
RemoveStep == pc = "graph" /\ idx' = idx + 1 /\ ret'.op = "RemoveResource"

\* C28: after RemoveResource(id), id is no node and has no dependency list, no dependency
\* list has an edge to id, Required or not, so that GetDependents(id) is empty; every
\* other node is as it was and every other list has kept its edges to other targets, in
\* order; if the graph had no cycle of Required edges and no Required edge to a missing
\* target before the call, TopologicalSort succeeds after it.
C28_RemoveResourcePrunes ==
    [][ RemoveStep =>
          LET id == ret'.id
          IN /\ id \notin DOMAIN nodes'
             /\ id \notin DOMAIN edges'
             /\ \A k \in DOMAIN edges' : \A i \in 1..Len(edges'[k]) : edges'[k][i].Target # id
             /\ GetDependents(edges', id) = {}
             /\ DOMAIN nodes' = DOMAIN nodes \ {id}
             /\ DOMAIN edges' = DOMAIN edges \ {id}
             /\ \A k \in DOMAIN nodes' : nodes'[k] = nodes[k]
             /\ \A k \in DOMAIN edges' :
                   edges'[k] = SelectSeq(edges[k], LAMBDA d : d.Target # id)
             /\ (~HasRequiredCycle(edges) /\ MissingTargets(nodes, edges) = {})
                   => /\ SortErrors(nodes', edges') = {NoErr}
                      /\ \A iter \in SortIters(nodes', edges') :
                            IsPermutation(TopologicalSort(nodes', edges', iter).result,
                                          DOMAIN nodes') ]_vars

\* C28 witness: a node that another node depended on was removed, and that other node
\* has kept an edge to a third target
C28_Witness ==
    /\ pc = "graph"
    /\ ret.op = "RemoveResource"
    /\ ret.existed
    /\ \E k \in ret.dependents \ {ret.id} : k \in DOMAIN edges /\ edges[k] # <<>>

\* C29: LoadState returns no error and leaves the store as it is, empty for a new state
\* manager, when there is no state file; it returns an unmarshal error and leaves the
\* store as it was when the file cannot be decoded; otherwise it returns no error and the
\* store holds exactly the entries of the file, with their statuses, checksums and
\* snapshots, so that a LoadState right after a successful write changes nothing.
C29_LoadStateRestores ==
    (pc = "entries" /\ LastOp.op = "LoadState") =>
        /\ ~stateFile.exists =>
              /\ ret.err = NoErr
              /\ state = state0
              /\ Len(touched) = 1 => state = <<>>
        /\ (stateFile.exists /\ Malformed(stateFile)) =>
              /\ Len(ret.err) > 1
              /\ ret.err[1] = "failed to unmarshal state file"
              /\ state = state0
        /\ (stateFile.exists /\ ~Malformed(stateFile)) =>
              /\ ret.err = NoErr
              /\ DOMAIN state = DOMAIN stateFile.data
              /\ \A id \in DOMAIN state : state[id] = stateFile.data[id]
              /\ (Len(touched) > 1 /\ touched[Len(touched) - 1].saved) => state = state0

\* C29 witness: a MarkApplied has written the file, and the LoadState after it has
\* replaced a store of two entries
C29_Witness ==
    /\ pc = "entries"
    /\ Len(touched) = 2
    /\ touched[1].op = "MarkApplied"
    /\ touched[1].saved
    /\ LastOp.op = "LoadState"
    /\ Cardinality(DOMAIN state) = 2

\* RunCommand has returned from its select statement
CmdReturned == cmd.pc = "returned" /\ cmd.out # "nosession"

\* a timeout signals the session and returns the timeout error, which differs from the
\* error of a command that failed
TimeoutOutcome ==
    cmd.out = "timeout" =>
        /\ cmd.signalled
        /\ cmd.err = <<"command timed out after %s", "1m0s">>
        /\ \A e \in {<<"Process exited with status 1">>} :
              cmd.err # Wrap("failed to run command", e)
        /\ cmd.events[1] = "timeout"

\* RunCommand returns one of the three outcomes, with the error of that outcome
OneOutcome ==
    CmdReturned =>
        /\ cmd.out \in {"result", "cancel", "timeout"}
        /\ cmd.out \in cmd.ready
        /\ cmd.closed
        /\ cmd.out = "cancel" => cmd.err = <<"context canceled">> /\ cmd.signalled
        /\ cmd.out = "result" =>
              /\ ~cmd.signalled
              /\ cmd.err = IF cmd.val.Error = NoErr THEN NoErr
                           ELSE Wrap("failed to run command", cmd.val.Error)

\* the goroutine's send can proceed whenever the goroutine is at it, and resultChan never
\* holds more than the one result
SendNeverBlocks ==
    /\ cmd.go = "sending" => CanSend(cmd.chan, cmd.pc = "parked")
    /\ Len(cmd.chan) <= 1

\* the action whose command timed out failed, and the plan with it
TimeoutFailsPlan ==
    /\ cmd.out = "timeout" =>
          /\ Install(<<cmd.err>>) # NoErr
          /\ Remove(<<cmd.err>>) # NoErr
          /\ DoesExist(<<cmd.err>>).err # NoErr
    /\ cmd.out = "timeout" /\ cmd.reported =>
          /\ pc = "done"
          /\ idx = cmd.action
          /\ ~result.Success
          /\ result.Error # NoErr
          /\ execErr # NoErr
          /\ Len(result.Actions) = idx - 1
          /\ touched[Len(touched)].op = "MarkFailed"

\* C30 as stated: a command that does not complete within the read timeout is signalled
\* and RunCommand returns a timeout error distinct from a command failure; RunCommand
\* returns exactly one outcome, that of the event that came first; the goroutine can
\* always deliver its result without blocking, also after the caller returned; the timeout
\* makes the calling action and the plan fail
C30_FirstEventWins ==
    /\ TimeoutOutcome
    /\ OneOutcome
    /\ CmdReturned => cmd.out = cmd.events[1]
    /\ SendNeverBlocks
    /\ TimeoutFailsPlan

\* C30, amended: as C30_FirstEventWins, but the outcome is that of the first event only if
\* the caller was waiting in select when it happened, which is always so for calls with
\* context.Background() and for the timeout; if the context was cancelled and the result
\* was delivered before select was entered, either of the two is returned
C30_RunCommandOutcome ==
    /\ TimeoutOutcome
    /\ OneOutcome
    /\ CmdReturned =>
          /\ cmd.woken # "none" => cmd.out = cmd.woken /\ cmd.out = cmd.events[1]
          /\ ~cmd.cancellable => cmd.out = cmd.events[1]
          /\ cmd.out # cmd.events[1] =>
                /\ cmd.woken = "none"
                /\ cmd.ready = {"cancel", "result"}
    /\ SendNeverBlocks
    /\ TimeoutFailsPlan

\* the command of the action timed out, the action and the plan failed, and the goroutine
\* delivered its result into resultChan after RunCommand had returned
C30_Witness ==
    /\ cmd.out = "timeout"
    /\ cmd.reported
    /\ pc = "done"
    /\ ~result.Success
    /\ cmd.events = <<"timeout", "result">>
    /\ cmd.go = "done"
    /\ Len(cmd.chan) = 1

\* the outcomes of the items of the batch that failed / succeeded
FailedItems == {i \in 1..Len(batch.results) : batch.results[i] # NoErr}
SucceededItems == {i \in 1..Len(batch.results) : batch.results[i] = NoErr}

\* C31: a batch call attempts every item, also after a failure, and returns an error iff
\* all items failed: no error with at least one success, and no error when no item failed,
\* the empty batch included
C31_BatchErrorIffAllFailed ==
    batch.returned =>
        /\ Len(batch.results) = batch.n
        /\ batch.successCount = Cardinality(SucceededItems)
        /\ batch.failureCount = Cardinality(FailedItems)
        /\ SucceededItems # {} => batch.err = NoErr
        /\ FailedItems = {} => batch.err = NoErr
        /\ batch.err # NoErr => FailedItems # {} /\ SucceededItems = {}

\* C32: when the barrier of the ping command is passed every selected host has been
\* probed exactly once, no other host has been probed, and the reported Success and
\* Failure counts sum to the number of selected hosts
C32_CountsSumToSelected ==
    probe.pc = "reported" =>
        /\ \A h \in 1..probe.m : probe.pinged[h] = IF h \in probe.selected THEN 1 ELSE 0
        /\ \A h \in probe.selected : probe.task[h].pc = "done"
        /\ probe.Success + probe.Failure = Cardinality(probe.selected)

\* the resource of the action at which Execute stopped
FailedResource == plan.Actions[idx].ResourceID

\* C33: when Execute reports failure, the run has left no resource recorded as applied,
\* and the store and the state file are what they were when Execute was entered, except
\* for the record of the failure
C33_AtomicRun ==
    pc = "done" /\ execErr # NoErr =>
        /\ \A i \in 1..Len(touched) : touched[i].op # "MarkApplied"
        /\ \A id \in (DOMAIN state \cup DOMAIN state0) \ {FailedResource} :
              /\ id \in DOMAIN state /\ id \in DOMAIN state0
              /\ state[id] = state0[id]
        /\ \A id \in DOMAIN stateFile.data \ {FailedResource} :
              id \in DOMAIN state0 /\ stateFile.data[id] = state0[id]

\* the resources whose Delete action of the run completed without error
Destroyed ==
    {result.Actions[i].Action.ResourceID : i \in
        {j \in 1..Len(result.Actions) : result.Actions[j].Action.Type = ActionDelete}}

\* the action the following Plan() holds for resource id is a NoOp
PlannedNoOp(id) ==
    \E i \in 1..Len(next.Actions) :
        next.Actions[i].ResourceID = id /\ next.Actions[i].Type = ActionNoOp

\* C34: after a Delete action on a resource succeeded, the store does not record the
\* resource as applied with an up-to-date snapshot, and the Plan() that follows over the
\* same declarations does not report it as NoOp "resource up to date"
C34_CleanReversesState ==
    \A id \in Destroyed :
        /\ (pc = "done" /\ HasState(state, id)) =>
              ~(state[id].Status = StateApplied /\ ~DetectDrift(state, nodes[id]))
        /\ (next.called /\ next.after = "done" /\ next.err = NoErr) => ~PlannedNoOp(id)

\* C35: whenever TopologicalSort returns without error, on any graph, the returned list
\* holds each node id exactly once and no id that is not a node
C35_SortResultIsNodePermutation ==
    (Sorted /\ ret.err = NoErr) => IsPermutation(ret.result, DOMAIN nodes)

\* the Apply calls of the run against a host
ApplyCalls == {i \in 1..Len(calls) : calls[i].op = "Apply" /\ "check" \in DOMAIN calls[i]}

\* C37: when the existence check finds the package absent, Apply runs the install command
\* and succeeds iff the install does; when the package is present, Apply succeeds without
\* running an install command
C37_ApplyConverges ==
    \A i \in ApplyCalls :
        /\ calls[i].check = "absent" =>
              /\ calls[i].commands = <<"check", "install">>
              /\ calls[i].err = NoErr <=>
                    nodes[calls[i].ResourceID].Config.name \in remote.installed[calls[i].host]
        /\ calls[i].check = "found" =>
              /\ calls[i].commands = <<"check">>
              /\ calls[i].err = NoErr

\* C38: the action of a package resource never crashes the run: its host is one of the
\* configured hosts, and with no host configured it fails with an error that is recorded
\* by MarkFailed and halts the plan
C38_HostBoundOrActionFails ==
    /\ pc # "crashed"
    /\ \A i \in 1..Len(calls) : "host" \in DOMAIN calls[i] => calls[i].host \in remote.hosts
    /\ (pc = "done" /\ remote.hosts = {} /\ plan.Actions # <<>>
          /\ \E i \in 1..Len(plan.Actions) : plan.Actions[i].Type # ActionNoOp)
        => /\ execErr # NoErr
           /\ ~result.Success
           /\ touched # <<>>
           /\ touched[Len(touched)].op = "MarkFailed"

\* a step in which Plan() is called and returns
PlanStep == pc = "idle" /\ pc' \in {"planned", "planfailed"}

\* C39: Plan() changes neither the store, nor the state file, nor the graph and its
\* resources, whether it succeeds or fails, and the plan it returns holds no Delete
\* action, also when the store has entries of resources that are not in the graph
C39_PlanReadOnly ==
    [][PlanStep =>
          /\ state' = state
          /\ stateFile' = stateFile
          /\ nodes' = nodes
          /\ edges' = edges
          /\ \A i \in 1..Len(plan'.Actions) :
                /\ plan'.Actions[i].Type \in {ActionCreate, ActionUpdate, ActionNoOp}
                /\ plan'.Actions[i].ResourceID \in DOMAIN nodes
          /\ planErr' # NoErr => plan'.Actions = <<>>]_vars

\* C39 witness: Plan() succeeded with actions while the store holds the entry of a
\* resource that is not in the graph, and the store is what it was
C39_Witness ==
    /\ pc = "planned"
    /\ plan.Actions # <<>>
    /\ DOMAIN state \ DOMAIN nodes # {}
    /\ DOMAIN state \cap DOMAIN nodes # {}
    /\ state = state0
    /\ stateFile.data = state0

\* the action list A is what the claim C12 describes for the graph and the store S
PlannedAsDescribed(A, S) ==
    /\ Len(A) = Cardinality(DOMAIN nodes)
    /\ \A id \in DOMAIN nodes : Cardinality({i \in 1..Len(A) : A[i].ResourceID = id}) = 1
    /\ \E ts \in SortOutcomes(nodes, edges) :
          ts.err = NoErr /\ ts.result = [i \in 1..Len(A) |-> A[i].ResourceID]
    /\ \A i \in 1..Len(A) :
          LET id == A[i].ResourceID
          IN /\ id \in DOMAIN nodes
             /\ A[i].Changes = <<>>
             /\ DOMAIN A[i] = {"ResourceID", "Type", "Changes", "Metadata"}
             /\ IF id \notin DOMAIN S
                THEN A[i].Type = ActionCreate
                     /\ A[i].Metadata = [reason |-> "resource not in state"]
                ELSE IF DetectDrift(S, nodes[id])
                THEN A[i].Type = ActionUpdate
                     /\ A[i].Metadata = [reason |-> "configuration drift detected"]
                ELSE A[i].Type = ActionNoOp
                     /\ A[i].Metadata = [reason |-> "resource up to date"]

\* C12: a successful Plan() holds one action per graph node, in an order TopologicalSort
\* can return, each for a resource of the graph, with no changes and with the type and the
\* reason decided by the entry of the store and DetectDrift.
C12_PlanAsDescribed ==
    /\ pc = "planned" => PlannedAsDescribed(plan.Actions, state)
    /\ pc = "planfailed" => plan.Actions = <<>>

\* C12 witness: a plan with an Update and a NoOp was made for a graph with a Required edge
\* between two nodes
C12_Witness ==
    /\ pc = "planned"
    /\ \E r \in ReqPairs(edges) : r[1] # r[2] /\ r[2] \in DOMAIN nodes
    /\ \E i \in 1..NumActions : plan.Actions[i].Type = ActionUpdate
    /\ \E i \in 1..NumActions : plan.Actions[i].Type = ActionNoOp

\* the plan in hand was made by Plan(), not by the clean command
MadeByPlan == \A i \in 1..NumActions : plan.Actions[i].Type # ActionDelete

\* C13: a second Plan() call right after Plan() returned, with the graph and the store
\* untouched in between, returns the same action list: the same resources, types and
\* reasons in the same order.
C13_PlanIdempotent ==
    (next.called /\ next.after = "planned" /\ MadeByPlan)
        => (next.err = NoErr /\ next.Actions = plan.Actions)

\* the position of the last call of the history whose op is in ops, 0 if there is none
LastCall(ops) ==
    IF \E i \in 1..Len(touched) : touched[i].op \in ops
    THEN CHOOSE i \in 1..Len(touched) :
            touched[i].op \in ops /\ \A j \in (i + 1)..Len(touched) : touched[j].op \notin ops
    ELSE 0

\* DetectDrift(r1) has just returned
DriftAsked == pc = "store" /\ ret.op = "DetectDrift"

C36_SnapshotIndependent ==
    LET i == LastCall({"MarkApplied", "MarkFailed"})
    IN (i > 0 /\ touched[i].op = "MarkApplied") =>
          /\ state[IdPool[1]].Metadata.config = touched[i].config
          /\ state[IdPool[1]].Checksum = Marshal(touched[i].config)
          /\ (DriftAsked /\ Marshal(nodes[IdPool[1]].Config) # Marshal(touched[i].config))
                => ret.result = TRUE

\* the Plan() call that followed the return of Execute has returned
PlannedAfterRun == next.called /\ next.after = "done"

\* C15: when Execute of a plan made by Plan() has succeeded, the Plan() call that follows,
\* in the same process or in the next one, succeeds and holds one action per node, every
\* one a NoOp with the reason "resource up to date".
C15_SecondPlanAllNoOp ==
    (PlannedAfterRun /\ MadeByPlan /\ result.Success)
        => /\ next.err = NoErr
           /\ Len(next.Actions) = Cardinality(DOMAIN nodes)
           /\ {next.Actions[i].ResourceID : i \in 1..Len(next.Actions)} = DOMAIN nodes
           /\ \A i \in 1..Len(next.Actions) :
                 /\ next.Actions[i].Type = ActionNoOp
                 /\ next.Actions[i].Metadata = [reason |-> "resource up to date"]

\* C15 witness: a run that created one resource and updated another succeeded, and the
\* next process has planned
C15_Witness ==
    /\ PlannedAfterRun
    /\ result.Success
    /\ next.reloaded
    /\ \E i \in 1..NumActions : plan.Actions[i].Type = ActionCreate
    /\ \E i \in 1..NumActions : plan.Actions[i].Type = ActionUpdate
    /\ \A i \in 1..Len(next.Actions) : next.Actions[i].Type = ActionNoOp

\* the run ended because the Apply or Destroy call of a resource returned an error
RunFailed == touched # <<>> /\ touched[Len(touched)].op = "MarkFailed"

\* the action planned for a resource does not depend on the status label of its entry
StatusBlind ==
    \A id \in DOMAIN state \cap DOMAIN nodes :
        \A st \in {StatePending, StateApplied, StateFailed, StateDrifted, StateSkipped,
                    StateUnknown} :
            planResource([state EXCEPT ![id].Status = st], nodes[id])
                = planResource(state, nodes[id])

\* the Plan() call after the run holds a non-NoOp action for the resource that failed
FailedPlannedAgain ==
    /\ next.err = NoErr
    /\ \E i \in 1..Len(next.Actions) :
          /\ next.Actions[i].ResourceID = touched[Len(touched)].ResourceID
          /\ next.Actions[i].Type \in {ActionCreate, ActionUpdate}

C8_DependencyAppliedFirst ==
    (pc \in {"executing", "done"} /\ \A i \in 1..NumActions : plan.Actions[i].Type # ActionDelete)
        => \A r \in ReqPairs(edges) :
              (r[1] # r[2] /\ Started(PlanPos(r[1])))
                  => /\ PlanPos(r[2]) < PlanPos(r[1])
                     /\ Succeeded(PlanPos(r[2]))
                     /\ r[2] \in DOMAIN state

====
